---- MODULE Spec2Model ----
(***************************************************************************)
(* Model of the Intska game engine (src/js/core/engine.js, first variant   *)
(* in the file: the async nextChallenge with the 2.5 s grace delay), the   *)
(* challenge registry (src/unnamed/part_010) and the timer scaling of      *)
(* src/js/core/difficulty.js.                                              *)
(*                                                                         *)
(* Times are held in tenths of a second (one countdown tick = 0.1 s = 1).  *)
(* The IEEE rounding of the repeated "timeRemaining -= 0.1" leaves a       *)
(* residue of about 1e-15 above 0 for some base times (Drifts); that       *)
(* residue is written 0, and the countdown then takes one callback more.   *)
(* The JavaScript event loop is modelled by interleaving: every pending    *)
(* setTimeout callback and every live setInterval may fire at any step;    *)
(* each action is one complete run-to-completion handler.                  *)
(***************************************************************************)
EXTENDS Integers, Sequences, FiniteSets, TLC

VARIABLES
  state,            \* GameEngine.state (the object built by getInitialState)
  currentChallenge, \* GameEngine.currentChallenge
  challenges,       \* ChallengeRegistry.challenges (Map, in insertion order)
  leaked,           \* live setInterval timers whose handle is no longer in state.timerInterval
  timeouts,         \* pending setTimeout callbacks, counted per callback body
  emitted,          \* events emitted by the handler that ran last, in order
  games,            \* history: number of startGame calls so far
  loads,            \* history: challenge instances created so far, over all games
  answers,          \* history: graded outcomes so far, over all games
  livesReachedZero, \* history: lives <= 0 has been seen in the current game
  gameOverCount,    \* history: gameOver events emitted in the current game
  statsCalls,       \* history: updateGameStats calls in the current game
  graded,           \* history: ways the current instance has been graded
  wrongFor,         \* history: wrong outcomes per category in the current game
  called,           \* history: the operation or callback that ran last
  eventHandlers,    \* GameEngine.eventHandlers: per event, the handlers in subscription order
  delivered,        \* history: handler invocations made by the operation that ran last
  effects,          \* history: calls made on challenges, factories and timers by the operation that ran last, in order
  dispatched        \* pending challengeAnswer dispatches of the challenge UIs, each with the serial number of the instance clicked

vars == <<state, currentChallenge, challenges, leaked, timeouts, emitted,
          games, loads, answers, livesReachedZero, gameOverCount, statsCalls, graded,
          wrongFor, called, eventHandlers, delivered, effects, dispatched>>

----------------------------------------------------------------------------
(* Bounds of the exploration *)
MaxGames == 2
MaxChallenges == 3
MaxAnswers == 6
MaxPending == 2
MaxLeaked == 1
NumAnswers == 2
InputWindow == 1
RandomSteps == 4
BurstChallenges == 6
BurstAnswers == 8
BurstPending == 3
IdleChallenges == 5
MaxDifficulty == 12
MaxWindow == 1
AllWrongChallenges == 6
RestartChallenges == 4
RestartAnswers == 6
ScalerLevels == 64
MaxSubscriptions == 3
MaxDispatches == 1
LifecycleAnswers == 5
ClickChallenges == 3
ClickAnswers == 5

(* Values *)
NULL == "null"
INTERVAL == "interval"
Infinity == 1000000
NaN == 0 - 1
(* In the place of an answer: the value null, and the value read from a    *)
(* property an object does not have.                                       *)
Null == 0 - 1
Undefined == 0 - 2
(* A factory that raises an error instead of creating an instance. *)
Throws == "throws"
NoChallenge == [id |-> NULL, category |-> NULL, difficulty |-> 0, correctAnswer |-> 0]
Thrown == [threw |-> TRUE, value |-> NULL]
Returned(value) == [threw |-> FALSE, value |-> value]
Categories == {"math", "logic", "memory", "puzzle"}
Answers == 1..NumAnswers
Randoms == 0..(RandomSteps - 1)
Callbacks == {"nextChallenge", "endGame", "startTimer"}
EventNames == {"timerTick", "gameOver"}
Handlers == {"updateTimer", "showGameOver"}

Max(a, b) == IF a >= b THEN a ELSE b
Min(a, b) == IF a <= b THEN a ELSE b

(* An operation of the engine or of the registry, with its arguments. *)
Call(name, args) == [name |-> name, args |-> args]

----------------------------------------------------------------------------
(* difficulty.js *)

getOperations(level) ==
  IF level < 3 THEN <<"+", "-">>
  ELSE IF level < 6 THEN <<"+", "-", "*">>
  ELSE <<"+", "-", "*", "/">>

getMathDifficulty(level) ==
  [minNumber |-> Max(1, level),
   maxNumber |-> 10 + (level * 5),
   operations |-> getOperations(level),
   wordProblemSteps |-> Min(1 + (level \div 5), 3),
   maxDenominator |-> Min(5 + level, 20),
   divisorMax |-> Min(5 + level, 15),
   timeLimit |-> Max(8, 15 - (level \div 3))]

getLogicDifficulty(level) ==
  [sequenceLength |-> 4 + (level \div 2),
   sequenceStep |-> 1 + (level \div 3),
   patternRules |-> Min(1 + (level \div 4), 3),
   itemCount |-> Min(4 + (level \div 2), 12),
   logicLayers |-> Min(1 + (level \div 3), 4),
   gridSize |-> Min(3 + (level \div 4), 6),
   choiceCount |-> Min(3 + (level \div 5), 6),
   timeLimit |-> Max(10, 20 - (level \div 2))]

getMemoryDifficulty(level) ==
  [sequenceLength |-> 3 + (level \div 2),
   flashSpeed |-> Max(300, 800 - (level * 30)),
   gridRows |-> Min(3 + (level \div 3), 6),
   gridCols |-> Min(3 + (level \div 3), 6),
   activeCells |-> Min(3 + level, 20),
   uniqueItems |-> Min(4 + (level \div 2), 10),
   totalItems |-> Min(12 + (level * 2), 50),
   matchesToFind |-> Min(1 + (level \div 5), 5),
   timeLimit |-> Max(15, 25 - (level \div 2))]

getPuzzleDifficulty(level) ==
  [itemCount |-> Min(4 + level, 15),
   categoryCount |-> Min(2 + (level \div 8), 4),
   tileGridSize |-> Min(3 + (level \div 5), 5),
   cupCount |-> Min(3 + (level \div 4), 7),
   shuffleMoves |-> Min(3 + level, 15),
   shuffleSpeed |-> Max(300, 800 - (level * 25)),
   containerCount |-> Min(3 + (level \div 3), 8),
   rotationTolerance |-> Max(5, 15 - level),
   wordLength |-> Min(4 + (level \div 3), 10),
   cubeStackSize |-> Min(3 + (level \div 2), 8),
   colorCount |-> Min(3 + (level \div 4), 6),
   gridSize |-> Min(8 + (level \div 3), 15),
   timeLimit |-> Max(12, 20 - (level \div 2))]

getDifficultyParams(challengeType, difficulty) ==
  IF challengeType = "logic" THEN getLogicDifficulty(difficulty)
  ELSE IF challengeType = "memory" THEN getMemoryDifficulty(difficulty)
  ELSE IF challengeType = "puzzle" THEN getPuzzleDifficulty(difficulty)
  ELSE getMathDifficulty(difficulty)

getTimerReduction(difficulty) == (difficulty \div 3) * 5

(* getBaseTimer without the lower limit. *)
getBaseTimerUnlimited(challengeBaseTime, difficulty) ==
  LET reduction == getTimerReduction(difficulty)
      calculatedTime == challengeBaseTime - reduction
  IN calculatedTime

getBaseTimer(challengeBaseTime, difficulty) ==
  LET reduction == getTimerReduction(difficulty)
      calculatedTime == challengeBaseTime - reduction
  IN Max(calculatedTime, 50)

----------------------------------------------------------------------------
(* Challenge registry.  A metadata field of 0 stands for an absent field. *)

Or(value, default) == IF value = 0 THEN default ELSE value

(* register adding a record on every call. *)
registerAppending(map, id, category, factory, metadata) ==
  LET record == [id |-> id,
                 category |-> category,
                 factory |-> factory,
                 metadata |-> [minDifficulty |-> Or(metadata.minDifficulty, 1),
                               maxDifficulty |-> Or(metadata.maxDifficulty, Infinity),
                               baseTime |-> Or(metadata.baseTime, 200)]]
  IN Append(map, record)

register(map, id, category, factory, metadata) ==
  LET record == [id |-> id,
                 category |-> category,
                 factory |-> factory,
                 metadata |-> [minDifficulty |-> Or(metadata.minDifficulty, 1),
                               maxDifficulty |-> Or(metadata.maxDifficulty, Infinity),
                               baseTime |-> Or(metadata.baseTime, 200)]]
  IN IF \E i \in DOMAIN map : map[i].id = id
     THEN [i \in DOMAIN map |-> IF map[i].id = id THEN record ELSE map[i]]
     ELSE Append(map, record)

Eligible(challenge, difficulty) ==
  /\ difficulty >= challenge.metadata.minDifficulty
  /\ difficulty <= challenge.metadata.maxDifficulty

(* getRandomChallenge filtering on minDifficulty only. *)
getRandomChallengeIgnoringMax(map, difficulty, random) ==
  LET available == SelectSeq(map, LAMBDA challenge :
                                    difficulty >= challenge.metadata.minDifficulty)
      randomIndex == (random * Len(available)) \div RandomSteps
  IN IF Len(available) = 0 THEN Thrown ELSE Returned(available[randomIndex + 1])

getRandomChallenge(map, difficulty, random) ==
  LET available == SelectSeq(map, LAMBDA challenge : Eligible(challenge, difficulty))
      randomIndex == (random * Len(available)) \div RandomSteps
  IN IF Len(available) = 0 THEN Thrown ELSE Returned(available[randomIndex + 1])

getCount(map) == Len(map)

unregister(map, id) == SelectSeq(map, LAMBDA challenge : challenge.id # id)

clear(map) == <<>>

(* Registrations the code makes at module load (times in tenths of a       *)
(* second; a factory is passed by its name).                               *)
registerArithmetic(map) ==
  register(map, "arithmetic", "math", "createArithmeticChallenge",
           [minDifficulty |-> 1, maxDifficulty |-> 0, baseTime |-> 300])

registerDivision(map) ==
  register(map, "division", "math", "createDivisionChallenge",
           [minDifficulty |-> 3, maxDifficulty |-> 0, baseTime |-> 400])

registerOddOneOut(map) ==
  register(map, "odd-one-out", "logic", "createOddOneOutChallenge",
           [minDifficulty |-> 1, maxDifficulty |-> 0, baseTime |-> 150])

registerPatternMatching(map) ==
  register(map, "pattern-matching", "memory", "createPatternMatchingChallenge",
           [minDifficulty |-> 1, maxDifficulty |-> 0, baseTime |-> 350])

registerCupShuffle(map) ==
  register(map, "cup-shuffle", "puzzle", "createCupShuffleChallenge",
           [minDifficulty |-> 1, maxDifficulty |-> 0, baseTime |-> 450])

(* The registry the engine is explored with: one of the code's            *)
(* registrations, the one with the shortest countdown.                     *)
RegisteredChallenges == registerOddOneOut(<<>>)

(* A registry holding two of the code's registrations, of two categories. *)
OpenEndedChallenges == registerOddOneOut(registerArithmetic(<<>>))

Registries == {RegisteredChallenges}

(* Registries on which acquisition fails.  Two are made through the       *)
(* public register with arguments no module of the code passes: the       *)
(* arithmetic factory under another id, with nothing eligible from         *)
(* difficulty 2 on, and the same record followed by one whose factory      *)
(* throws from difficulty 2 on.  The third                                 *)
(* is the registration of division alone, with nothing at difficulty 1.    *)
ExhaustedChallenges ==
  register(<<>>, "quick-sum", "math", "createArithmeticChallenge",
           [minDifficulty |-> 1, maxDifficulty |-> 1, baseTime |-> 50])

BrokenChallenges ==
  register(ExhaustedChallenges, "broken", "logic", Throws,
           [minDifficulty |-> 2, maxDifficulty |-> 0, baseTime |-> 50])

LateChallenges == registerDivision(<<>>)

AcquisitionRegistries == {ExhaustedChallenges, BrokenChallenges, LateChallenges}

(* One registry per category, holding one registration of the code. *)
CategoryChallenges ==
  {registerArithmetic(<<>>), registerOddOneOut(<<>>),
   registerPatternMatching(<<>>), registerCupShuffle(<<>>)}

CupChallenges == registerCupShuffle(<<>>)

(* The factories.  An instance takes its id and its category from its     *)
(* factory.  The answer a challenge draws at random is written 1; the      *)
(* cup-shuffle instance stores null, and the pattern-matching instance     *)
(* has no correctAnswer property.                                          *)
createArithmeticChallenge(difficulty) ==
  [id |-> "arithmetic", category |-> "math", difficulty |-> difficulty,
   correctAnswer |-> 1]

createDivisionChallenge(difficulty) ==
  [id |-> "division", category |-> "math", difficulty |-> difficulty,
   correctAnswer |-> 1]

createOddOneOutChallenge(difficulty) ==
  [id |-> "odd-one-out", category |-> "logic", difficulty |-> difficulty,
   correctAnswer |-> 1]

createPatternMatchingChallenge(difficulty) ==
  [id |-> "pattern-matching", category |-> "memory", difficulty |-> difficulty]

createCupShuffleChallenge(difficulty) ==
  [id |-> "cup-shuffle", category |-> "puzzle", difficulty |-> difficulty,
   correctAnswer |-> Null]

(* A call of a record's factory. *)
factory(record, difficulty) ==
  CASE record.factory = "createArithmeticChallenge" ->
         Returned(createArithmeticChallenge(difficulty))
    [] record.factory = "createDivisionChallenge" ->
         Returned(createDivisionChallenge(difficulty))
    [] record.factory = "createOddOneOutChallenge" ->
         Returned(createOddOneOutChallenge(difficulty))
    [] record.factory = "createPatternMatchingChallenge" ->
         Returned(createPatternMatchingChallenge(difficulty))
    [] record.factory = "createCupShuffleChallenge" ->
         Returned(createCupShuffleChallenge(difficulty))
    [] record.factory = Throws -> Thrown

(* Math.abs(Number(answer) - Number(correct)) <= 0.01, on integers. *)
validateNumber(answer, correct) == answer = correct

(* The check method of an instance.  For pattern-matching the answer 1     *)
(* stands for a selection of three symbols of one key, for cup-shuffle     *)
(* for true (a click on the cup with the ball); every other answer stands  *)
(* for a selection or a value the check rejects.                           *)
check(challenge, answer) ==
  CASE challenge.id \in {"arithmetic", "division"} ->
         validateNumber(answer, challenge.correctAnswer)
    [] challenge.id = "odd-one-out" -> answer = challenge.correctAnswer
    [] challenge.id = "pattern-matching" -> answer = 1
    [] challenge.id = "cup-shuffle" -> answer = 1
    [] OTHER -> FALSE

(* this.currentChallenge.correctAnswer as the engine reads it. *)
correctAnswerOf(challenge) ==
  IF "correctAnswer" \in DOMAIN challenge THEN challenge.correctAnswer
  ELSE Undefined

----------------------------------------------------------------------------
(* GameEngine.  "this" is the engine object together with the timers it   *)
(* has scheduled and the history kept for the properties.                  *)

getInitialState ==
  [isPlaying |-> FALSE,
   isPaused |-> FALSE,
   lives |-> 5,
   maxLives |-> 5,
   score |-> 0,
   winStreak |-> 0,
   difficulty |-> 1,
   currentChallengeType |-> NULL,
   totalChallenges |-> 0,
   correctAnswers |-> 0,
   wrongAnswers |-> 0,
   categoryStats |-> [c \in Categories |-> [correct |-> 0, attempts |-> 0]],
   timeRemaining |-> 0,
   baseTime |-> 200,
   timerInterval |-> NULL]

This ==
  [state |-> state, currentChallenge |-> currentChallenge, leaked |-> leaked,
   timeouts |-> timeouts, emitted |-> emitted, games |-> games,
   loads |-> loads, answers |-> answers,
   livesReachedZero |-> livesReachedZero, gameOverCount |-> gameOverCount,
   statsCalls |-> statsCalls, graded |-> graded, wrongFor |-> wrongFor,
   effects |-> effects, dispatched |-> dispatched]

emit(this, event) ==
  [this EXCEPT !.emitted = Append(@, event),
                !.effects = Append(@, [name |-> "emit", event |-> event.name])]

(* The event system: on, off, and the delivery emit makes to the handlers *)
(* subscribed to the event, each invocation recorded with its data.       *)
on(handlers, event, handler) ==
  [handlers EXCEPT ![event] = Append(@, handler)]

off(handlers, event, handler) ==
  [handlers EXCEPT ![event] = SelectSeq(@, LAMBDA h : h # handler)]

(* The delivery in the reverse of the subscription order. *)
forEachReversed(handlers, event, data) ==
  [i \in 1..Len(handlers[event]) |->
     [handler |-> handlers[event][Len(handlers[event]) + 1 - i],
      event |-> event, data |-> data]]

forEach(handlers, event, data) ==
  [i \in 1..Len(handlers[event]) |->
     [handler |-> handlers[event][i], event |-> event, data |-> data]]

setTimeout(this, callback) == [this EXCEPT !.timeouts[callback] = @ + 1]

stopTimer(this) ==
  IF this.state.timerInterval # NULL
  THEN [this EXCEPT !.state.timerInterval = NULL,
                    !.effects = Append(@, [name |-> "clearInterval"])]
  ELSE this

(* The guarded call of the current instance's cleanup(). *)
cleanup(this) ==
  IF this.currentChallenge # NoChallenge
  THEN [this EXCEPT !.effects = Append(@, [name |-> "cleanup",
                                           challenge |-> this.currentChallenge])]
  ELSE this

startTimer(this) ==
  [stopTimer(this) EXCEPT !.state.timerInterval = INTERVAL]

(* Math.round((correctAnswers / totalChallenges) * 100) in IEEE doubles.    *)
(* The product differs from the exact percentage only in its last bits,    *)
(* which matters when the exact value ends in .5: for the ratios of        *)
(* HalfRoundedDown (all there are up to a ratio of 2) the double is just   *)
(* below the half and Math.round gives the lower integer.                  *)
RECURSIVE GCD(_, _)
GCD(a, b) == IF b = 0 THEN a ELSE GCD(b, a % b)

HalfRoundedDown ==
  {<<23, 40>>, <<41, 40>>, <<51, 40>>, <<29, 200>>, <<57, 200>>,
   <<113, 200>>, <<201, 200>>, <<203, 200>>, <<207, 200>>, <<251, 200>>,
   <<253, 200>>}

Accuracy(correctAnswers, totalChallenges) ==
  IF totalChallenges = 0
  THEN IF correctAnswers = 0 THEN NaN ELSE Infinity
  ELSE LET halfUp == (200 * correctAnswers + totalChallenges)
                       \div (2 * totalChallenges)
           g == GCD(correctAnswers, totalChallenges)
       IN IF <<correctAnswers \div g, totalChallenges \div g>> \in HalfRoundedDown
          THEN halfUp - 1
          ELSE halfUp

(* endGame without its "already ended" guard. *)
endGameUnguarded(this) ==
  LET stopped == stopTimer([this EXCEPT !.state.isPlaying = FALSE])
      saved == [cleanup(stopped) EXCEPT !.statsCalls = @ + 1]
  IN emit([saved EXCEPT !.gameOverCount = @ + 1],
          [name |-> "gameOver",
           score |-> saved.state.score,
           correctAnswers |-> saved.state.correctAnswers,
           totalChallenges |-> saved.state.totalChallenges,
           accuracy |-> Accuracy(saved.state.correctAnswers,
                                 saved.state.totalChallenges)])

endGame(this) ==
  IF ~this.state.isPlaying THEN this
  ELSE LET stopped == stopTimer([this EXCEPT !.state.isPlaying = FALSE])
           saved == [cleanup(stopped) EXCEPT !.statsCalls = @ + 1]
       IN emit([saved EXCEPT !.gameOverCount = @ + 1],
               [name |-> "gameOver",
                score |-> saved.state.score,
                correctAnswers |-> saved.state.correctAnswers,
                totalChallenges |-> saved.state.totalChallenges,
                accuracy |-> Accuracy(saved.state.correctAnswers,
                                      saved.state.totalChallenges)])

(* nextChallenge trying again later when the acquisition fails. *)
nextChallengeRetrying(this, random) ==
  IF ~this.state.isPlaying THEN this
  ELSE IF this.state.lives <= 0 THEN endGame(this)
  ELSE
    LET cleaned == stopTimer(cleanup(this))
        result ==
          getRandomChallenge(challenges, cleaned.state.difficulty, random)
        created ==
          IF result.threw THEN Thrown
          ELSE factory(result.value, cleaned.state.difficulty)
        stopped ==
          IF result.threw THEN cleaned
          ELSE [cleaned EXCEPT !.effects =
                  Append(@, [name |-> "factory", id |-> result.value.id])]
    IN IF created.threw THEN setTimeout(stopped, "nextChallenge")
       ELSE
         LET challengeFactory == result.value
             instance == created.value
             baseTime == getBaseTimer(challengeFactory.metadata.baseTime,
                                      stopped.state.difficulty)
             loaded == [stopped EXCEPT
                          !.currentChallenge = instance,
                          !.state.currentChallengeType = instance.category,
                          !.state.totalChallenges = @ + 1,
                          !.state.baseTime = baseTime,
                          !.state.timeRemaining = baseTime,
                          !.loads = @ + 1,
                          !.graded = {}]
             ready == emit(loaded, [name |-> "challengeReady",
                                    challenge |-> instance,
                                    difficulty |-> loaded.state.difficulty,
                                    timeLimit |-> loaded.state.baseTime])
         IN setTimeout(ready, "startTimer")

nextChallenge(this, random) ==
  IF ~this.state.isPlaying THEN this
  ELSE IF this.state.lives <= 0 THEN endGame(this)
  ELSE
    LET cleaned == stopTimer(cleanup(this))
        result ==
          getRandomChallenge(challenges, cleaned.state.difficulty, random)
        created ==
          IF result.threw THEN Thrown
          ELSE factory(result.value, cleaned.state.difficulty)
        stopped ==
          IF result.threw THEN cleaned
          ELSE [cleaned EXCEPT !.effects =
                  Append(@, [name |-> "factory", id |-> result.value.id])]
    IN IF created.threw THEN endGame(stopped)
       ELSE
         LET challengeFactory == result.value
             instance == created.value
             baseTime == getBaseTimer(challengeFactory.metadata.baseTime,
                                      stopped.state.difficulty)
             loaded == [stopped EXCEPT
                          !.currentChallenge = instance,
                          !.state.currentChallengeType = instance.category,
                          !.state.totalChallenges = @ + 1,
                          !.state.baseTime = baseTime,
                          !.state.timeRemaining = baseTime,
                          !.loads = @ + 1,
                          !.graded = {}]
             ready == emit(loaded, [name |-> "challengeReady",
                                    challenge |-> instance,
                                    difficulty |-> loaded.state.difficulty,
                                    timeLimit |-> loaded.state.baseTime])
         IN setTimeout(ready, "startTimer")

startGame(this, random) ==
  LET fresh == [this EXCEPT
                  !.state = [getInitialState EXCEPT !.isPlaying = TRUE],
                  !.leaked = IF this.state.timerInterval # NULL THEN @ + 1 ELSE @,
                  !.games = @ + 1,
                  !.livesReachedZero = FALSE,
                  !.gameOverCount = 0,
                  !.statsCalls = 0,
                  !.graded = {},
                  !.wrongFor = [c \in Categories |-> 0]]
  IN nextChallenge(emit(fresh, [name |-> "gameStart"]), random)

(* handleCorrectAnswer resetting the streak only when a life is granted. *)
handleCorrectAnswerKeepingStreak(this) ==
  LET category == this.currentChallenge.category
      counted == [this EXCEPT
                    !.state.score = @ + 1,
                    !.state.correctAnswers = @ + 1,
                    !.state.winStreak = @ + 1,
                    !.state.categoryStats[category].correct = @ + 1,
                    !.state.difficulty = @ + 1,
                    !.answers = @ + 1]
      streak ==
        IF counted.state.winStreak = 3 /\ counted.state.lives < counted.state.maxLives
        THEN [emit([counted EXCEPT !.state.lives = @ + 1],
                   [name |-> "lifeGained", lives |-> counted.state.lives + 1])
              EXCEPT !.state.winStreak = 0]
        ELSE counted
  IN setTimeout(emit(streak, [name |-> "answerCorrect",
                              score |-> streak.state.score,
                              difficulty |-> streak.state.difficulty,
                              winStreak |-> streak.state.winStreak,
                              lives |-> streak.state.lives]),
                "nextChallenge")

(* handleCorrectAnswer granting the life at full health too. *)
handleCorrectAnswerAtFullHealth(this) ==
  LET category == this.currentChallenge.category
      counted == [this EXCEPT
                    !.state.score = @ + 1,
                    !.state.correctAnswers = @ + 1,
                    !.state.winStreak = @ + 1,
                    !.state.categoryStats[category].correct = @ + 1,
                    !.state.difficulty = @ + 1,
                    !.answers = @ + 1]
      streak ==
        IF counted.state.winStreak = 3
        THEN LET gained ==
                   emit([counted EXCEPT !.state.lives = @ + 1],
                        [name |-> "lifeGained",
                         lives |-> counted.state.lives + 1])
             IN [gained EXCEPT !.state.winStreak = 0]
        ELSE counted
  IN setTimeout(emit(streak, [name |-> "answerCorrect",
                              score |-> streak.state.score,
                              difficulty |-> streak.state.difficulty,
                              winStreak |-> streak.state.winStreak,
                              lives |-> streak.state.lives]),
                "nextChallenge")

(* handleCorrectAnswer adding the difficulty level to the score. *)
handleCorrectAnswerScoringDifficulty(this) ==
  LET category == this.currentChallenge.category
      counted == [this EXCEPT
                    !.state.score = @ + this.state.difficulty,
                    !.state.correctAnswers = @ + 1,
                    !.state.winStreak = @ + 1,
                    !.state.categoryStats[category].correct = @ + 1,
                    !.state.difficulty = @ + 1,
                    !.answers = @ + 1]
      streak ==
        IF counted.state.winStreak = 3
        THEN LET gained ==
                   IF counted.state.lives < counted.state.maxLives
                   THEN emit([counted EXCEPT !.state.lives = @ + 1],
                             [name |-> "lifeGained",
                              lives |-> counted.state.lives + 1])
                   ELSE counted
             IN [gained EXCEPT !.state.winStreak = 0]
        ELSE counted
  IN setTimeout(emit(streak, [name |-> "answerCorrect",
                              score |-> streak.state.score,
                              difficulty |-> streak.state.difficulty,
                              winStreak |-> streak.state.winStreak,
                              lives |-> streak.state.lives]),
                "nextChallenge")

handleCorrectAnswer(this) ==
  LET category == this.currentChallenge.category
      counted == [this EXCEPT
                    !.state.score = @ + 1,
                    !.state.correctAnswers = @ + 1,
                    !.state.winStreak = @ + 1,
                    !.state.categoryStats[category].correct = @ + 1,
                    !.state.difficulty = @ + 1,
                    !.answers = @ + 1]
      streak ==
        IF counted.state.winStreak = 3
        THEN LET gained ==
                   IF counted.state.lives < counted.state.maxLives
                   THEN emit([counted EXCEPT !.state.lives = @ + 1],
                             [name |-> "lifeGained",
                              lives |-> counted.state.lives + 1])
                   ELSE counted
             IN [gained EXCEPT !.state.winStreak = 0]
        ELSE counted
  IN setTimeout(emit(streak, [name |-> "answerCorrect",
                              score |-> streak.state.score,
                              difficulty |-> streak.state.difficulty,
                              winStreak |-> streak.state.winStreak,
                              lives |-> streak.state.lives]),
                "nextChallenge")

(* handleWrongAnswer easing the difficulty after a miss. *)
handleWrongAnswerEasing(this) ==
  LET counted == [this EXCEPT
                    !.state.wrongAnswers = @ + 1,
                    !.state.winStreak = 0,
                    !.state.lives = @ - 1,
                    !.state.difficulty = Max(1, @ - 1),
                    !.answers = @ + 1,
                    !.livesReachedZero = @ \/ (this.state.lives - 1 <= 0),
                    !.wrongFor[this.currentChallenge.category] = @ + 1]
      told == emit(counted, [name |-> "answerWrong",
                             lives |-> counted.state.lives,
                             correctAnswer |-> correctAnswerOf(counted.currentChallenge)])
  IN IF told.state.lives <= 0
     THEN setTimeout(told, "endGame")
     ELSE setTimeout(told, "nextChallenge")

(* handleWrongAnswer ending the game with one life left. *)
handleWrongAnswerEndingEarly(this) ==
  LET counted == [this EXCEPT
                    !.state.wrongAnswers = @ + 1,
                    !.state.winStreak = 0,
                    !.state.lives = @ - 1,
                    !.answers = @ + 1,
                    !.livesReachedZero = @ \/ (this.state.lives - 1 <= 0),
                    !.wrongFor[this.currentChallenge.category] = @ + 1]
      told == emit(counted, [name |-> "answerWrong",
                             lives |-> counted.state.lives,
                             correctAnswer |-> correctAnswerOf(counted.currentChallenge)])
  IN IF told.state.lives <= 1
     THEN setTimeout(told, "endGame")
     ELSE setTimeout(told, "nextChallenge")

(* handleWrongAnswer not scheduling endGame when the last life is lost. *)
handleWrongAnswerNeverEnding(this) ==
  LET counted == [this EXCEPT
                    !.state.wrongAnswers = @ + 1,
                    !.state.winStreak = 0,
                    !.state.lives = @ - 1,
                    !.answers = @ + 1,
                    !.livesReachedZero = @ \/ (this.state.lives - 1 <= 0),
                    !.wrongFor[this.currentChallenge.category] = @ + 1]
      told == emit(counted, [name |-> "answerWrong",
                             lives |-> counted.state.lives,
                             correctAnswer |-> correctAnswerOf(counted.currentChallenge)])
  IN IF told.state.lives <= 0
     THEN told
     ELSE setTimeout(told, "nextChallenge")

handleWrongAnswer(this) ==
  LET counted == [this EXCEPT
                    !.state.wrongAnswers = @ + 1,
                    !.state.winStreak = 0,
                    !.state.lives = @ - 1,
                    !.answers = @ + 1,
                    !.livesReachedZero = @ \/ (this.state.lives - 1 <= 0),
                    !.wrongFor[this.currentChallenge.category] = @ + 1]
      told == emit(counted, [name |-> "answerWrong",
                             lives |-> counted.state.lives,
                             correctAnswer |-> correctAnswerOf(counted.currentChallenge)])
  IN IF told.state.lives <= 0
     THEN setTimeout(told, "endGame")
     ELSE setTimeout(told, "nextChallenge")

(* handleTimeout without its timeout event. *)
handleTimeoutSilent(this) ==
  IF this.state.lives <= 0 \/ ~this.state.isPlaying THEN this
  ELSE handleWrongAnswer([this EXCEPT !.graded = @ \cup {"timeout"}])

handleTimeout(this) ==
  IF this.state.lives <= 0 \/ ~this.state.isPlaying THEN this
  ELSE handleWrongAnswer(
         emit([this EXCEPT !.graded = @ \cup {"timeout"}],
              [name |-> "timeout",
               correctAnswer |-> correctAnswerOf(this.currentChallenge)]))

submitAnswer(this, answer) ==
  IF ~this.state.isPlaying \/ this.currentChallenge = NoChallenge THEN this
  ELSE
    LET stopped == stopTimer(this)
        isCorrect == check(stopped.currentChallenge, answer)
        category == stopped.currentChallenge.category
        attempted == [stopped EXCEPT
                        !.state.categoryStats[category].attempts = @ + 1,
                        !.graded = @ \cup {"submit"}]
    IN IF isCorrect THEN handleCorrectAnswer(attempted)
       ELSE handleWrongAnswer(attempted)

(* The body of the setInterval callback installed by startTimer. *)
(* The repeated "timeRemaining -= 0.1" in IEEE doubles: from the base      *)
(* times of Drifts the value is still above 0 (by about 1e-15) after       *)
(* baseTime / 0.1 callbacks, and the countdown takes one callback more;    *)
(* from the others it is at or below 0 by then.  Base times up to 120 s.   *)
Drifts(baseTime) ==
  \/ 4 <= baseTime /\ baseTime <= 13
  \/ 47 <= baseTime /\ baseTime <= 188
  \/ 754 <= baseTime /\ baseTime <= 1200

(* The interval callback without the clamp at zero. *)
timerCallbackUnclamped(this) ==
  IF ~this.state.isPlaying \/ this.state.lives <= 0 THEN stopTimer(this)
  ELSE
    LET ticked == [this EXCEPT !.state.timeRemaining = @ - 1]
    IN IF \/ ticked.state.timeRemaining < 0
          \/ /\ ticked.state.timeRemaining = 0
             /\ ~Drifts(ticked.state.baseTime)
       THEN handleTimeout(stopTimer(ticked))
       ELSE emit(ticked, [name |-> "timerTick",
                          timeRemaining |-> ticked.state.timeRemaining,
                          baseTime |-> ticked.state.baseTime])

timerCallback(this) ==
  IF ~this.state.isPlaying \/ this.state.lives <= 0 THEN stopTimer(this)
  ELSE
    LET ticked == [this EXCEPT !.state.timeRemaining = @ - 1]
    IN IF \/ ticked.state.timeRemaining < 0
          \/ /\ ticked.state.timeRemaining = 0
             /\ ~Drifts(ticked.state.baseTime)
       THEN handleTimeout(stopTimer([ticked EXCEPT !.state.timeRemaining = 0]))
       ELSE emit(ticked, [name |-> "timerTick",
                          timeRemaining |-> ticked.state.timeRemaining,
                          baseTime |-> ticked.state.baseTime])

(* pauseGame dropping the active instance. *)
pauseGameDroppingChallenge(this) ==
  IF ~this.state.isPlaying \/ this.state.isPaused THEN this
  ELSE emit(stopTimer([this EXCEPT !.state.isPaused = TRUE,
                                   !.currentChallenge = NoChallenge]),
            [name |-> "gamePaused"])

pauseGame(this) ==
  IF ~this.state.isPlaying \/ this.state.isPaused THEN this
  ELSE emit(stopTimer([this EXCEPT !.state.isPaused = TRUE]),
            [name |-> "gamePaused"])

(* resumeGame without its "not paused" guard. *)
resumeGameWhenNotPaused(this) ==
  IF ~this.state.isPlaying THEN this
  ELSE emit(startTimer([this EXCEPT !.state.isPaused = FALSE]),
            [name |-> "gameResumed"])

resumeGame(this) ==
  IF ~this.state.isPlaying \/ ~this.state.isPaused THEN this
  ELSE emit(startTimer([this EXCEPT !.state.isPaused = FALSE]),
            [name |-> "gameResumed"])

destroy(this) ==
  [cleanup(stopTimer(this)) EXCEPT !.state = getInitialState]

(* The click listener of a cup of the current instance's UI: the answer   *)
(* is fixed at the click and its dispatch is scheduled for 800 ms later.   *)
click(this, answer) ==
  [this EXCEPT !.dispatched =
     Append(@, [origin |-> this.loads, answer |-> answer])]

----------------------------------------------------------------------------
(* The state machine *)

Init ==
  /\ state = getInitialState
  /\ currentChallenge = NoChallenge
  /\ challenges \in Registries
  /\ leaked = 0
  /\ timeouts = [c \in Callbacks |-> 0]
  /\ emitted = <<>>
  /\ games = 0
  /\ loads = 0
  /\ answers = 0
  /\ livesReachedZero = FALSE
  /\ gameOverCount = 0
  /\ statsCalls = 0
  /\ graded = {}
  /\ wrongFor = [c \in Categories |-> 0]
  /\ called = Call("constructor", <<>>)
  /\ eventHandlers = [event \in EventNames |-> <<>>]
  /\ delivered = <<>>
  /\ effects = <<>>
  /\ dispatched = <<>>

Limits ==
  [games |-> MaxGames, challenges |-> MaxChallenges, answers |-> MaxAnswers,
   pending |-> MaxPending, leaked |-> MaxLeaked]

WithinBounds(this, limits) ==
  /\ this.games <= limits.games
  /\ this.loads <= limits.challenges
  /\ this.answers <= limits.answers
  /\ \A c \in Callbacks : this.timeouts[c] <= limits.pending
  /\ this.leaked <= limits.leaked

Commit(this, limits) ==
  /\ WithinBounds(this, limits)
  /\ state' = this.state
  /\ currentChallenge' = this.currentChallenge
  /\ leaked' = this.leaked
  /\ timeouts' = this.timeouts
  /\ emitted' = this.emitted
  /\ effects' = this.effects
  /\ dispatched' = this.dispatched
  /\ games' = this.games
  /\ loads' = this.loads
  /\ answers' = this.answers
  /\ livesReachedZero' = this.livesReachedZero
  /\ gameOverCount' = this.gameOverCount
  /\ statsCalls' = this.statsCalls
  /\ graded' = this.graded
  /\ wrongFor' = this.wrongFor

(* The handler about to run: nothing emitted yet. *)
Called == [This EXCEPT !.emitted = <<>>, !.effects = <<>>]

(* A setTimeout callback leaves the pending set when it fires. *)
Fired(callback) == [Called EXCEPT !.timeouts[callback] = @ - 1]

(* The player answers, pauses and resumes at the start or at the end of a  *)
(* countdown: within InputWindow ticks of the full time or of zero.        *)
PlayerActs ==
  \/ state.timeRemaining >= state.baseTime - InputWindow
  \/ state.timeRemaining <= InputWindow

StartGame ==
  /\ \E random \in Randoms : Commit(startGame(Called, random), Limits)
  /\ called' = Call("startGame", <<>>)
  /\ UNCHANGED <<challenges, eventHandlers, delivered>>

SubmitAnswer ==
  /\ PlayerActs
  /\ \E answer \in Answers : Commit(submitAnswer(Called, answer), Limits)
  /\ called' = Call("submitAnswer", <<>>)
  /\ UNCHANGED <<challenges, eventHandlers, delivered>>

PauseGame ==
  /\ PlayerActs
  /\ Commit(pauseGame(Called), Limits)
  /\ called' = Call("pauseGame", <<>>)
  /\ UNCHANGED <<challenges, eventHandlers, delivered>>

ResumeGame ==
  /\ PlayerActs
  /\ Commit(resumeGame(Called), Limits)
  /\ called' = Call("resumeGame", <<>>)
  /\ UNCHANGED <<challenges, eventHandlers, delivered>>

TimerFires ==
  /\ state.timerInterval # NULL \/ leaked > 0
  /\ Commit(timerCallback(Called), Limits)
  /\ called' = Call("timerCallback", <<>>)
  /\ UNCHANGED <<challenges, eventHandlers, delivered>>

NextChallengeFires ==
  /\ timeouts["nextChallenge"] > 0
  /\ \E random \in Randoms :
       Commit(nextChallenge(Fired("nextChallenge"), random), Limits)
  /\ called' = Call("nextChallenge", <<>>)
  /\ UNCHANGED <<challenges, eventHandlers, delivered>>

EndGameFires ==
  /\ timeouts["endGame"] > 0
  /\ Commit(endGame(Fired("endGame")), Limits)
  /\ called' = Call("endGame", <<>>)
  /\ UNCHANGED <<challenges, eventHandlers, delivered>>

GraceDelayFires ==
  /\ timeouts["startTimer"] > 0
  /\ Commit(startTimer(Fired("startTimer")), Limits)
  /\ called' = Call("startTimer", <<>>)
  /\ UNCHANGED <<challenges, eventHandlers, delivered>>

Next ==
  \/ StartGame
  \/ SubmitAnswer
  \/ PauseGame
  \/ ResumeGame
  \/ TimerFires
  \/ NextChallengeFires
  \/ EndGameFires
  \/ GraceDelayFires

Spec == Init /\ [][Next]_vars

(* The same engine started on each of the registrations on which the      *)
(* acquisition of a challenge can fail.                                    *)
InitAcquisition ==
  /\ state = getInitialState
  /\ currentChallenge = NoChallenge
  /\ challenges \in AcquisitionRegistries
  /\ leaked = 0
  /\ timeouts = [c \in Callbacks |-> 0]
  /\ emitted = <<>>
  /\ games = 0
  /\ loads = 0
  /\ answers = 0
  /\ livesReachedZero = FALSE
  /\ gameOverCount = 0
  /\ statsCalls = 0
  /\ graded = {}
  /\ wrongFor = [c \in Categories |-> 0]
  /\ called = Call("constructor", <<>>)
  /\ eventHandlers = [event \in EventNames |-> <<>>]
  /\ delivered = <<>>
  /\ effects = <<>>
  /\ dispatched = <<>>

(* One game on such a registry. *)
AcquisitionLimits ==
  [games |-> 1, challenges |-> MaxChallenges, answers |-> MaxAnswers,
   pending |-> MaxPending, leaked |-> 0]

AcquisitionStartGame ==
  /\ \E random \in Randoms : Commit(startGame(Called, random), AcquisitionLimits)
  /\ called' = Call("startGame", <<>>)
  /\ UNCHANGED <<challenges, eventHandlers, delivered>>

AcquisitionSubmitAnswer ==
  /\ PlayerActs
  /\ \E answer \in Answers : Commit(submitAnswer(Called, answer), AcquisitionLimits)
  /\ called' = Call("submitAnswer", <<>>)
  /\ UNCHANGED <<challenges, eventHandlers, delivered>>

AcquisitionPauseGame ==
  /\ PlayerActs
  /\ Commit(pauseGame(Called), AcquisitionLimits)
  /\ called' = Call("pauseGame", <<>>)
  /\ UNCHANGED <<challenges, eventHandlers, delivered>>

AcquisitionResumeGame ==
  /\ PlayerActs
  /\ Commit(resumeGame(Called), AcquisitionLimits)
  /\ called' = Call("resumeGame", <<>>)
  /\ UNCHANGED <<challenges, eventHandlers, delivered>>

AcquisitionTimerFires ==
  /\ state.timerInterval # NULL \/ leaked > 0
  /\ Commit(timerCallback(Called), AcquisitionLimits)
  /\ called' = Call("timerCallback", <<>>)
  /\ UNCHANGED <<challenges, eventHandlers, delivered>>

AcquisitionNextChallengeFires ==
  /\ timeouts["nextChallenge"] > 0
  /\ \E random \in Randoms :
       Commit(nextChallenge(Fired("nextChallenge"), random), AcquisitionLimits)
  /\ called' = Call("nextChallenge", <<>>)
  /\ UNCHANGED <<challenges, eventHandlers, delivered>>

AcquisitionEndGameFires ==
  /\ timeouts["endGame"] > 0
  /\ Commit(endGame(Fired("endGame")), AcquisitionLimits)
  /\ called' = Call("endGame", <<>>)
  /\ UNCHANGED <<challenges, eventHandlers, delivered>>

AcquisitionGraceDelayFires ==
  /\ timeouts["startTimer"] > 0
  /\ Commit(startTimer(Fired("startTimer")), AcquisitionLimits)
  /\ called' = Call("startTimer", <<>>)
  /\ UNCHANGED <<challenges, eventHandlers, delivered>>

AcquisitionNext ==
  \/ AcquisitionStartGame
  \/ AcquisitionSubmitAnswer
  \/ AcquisitionPauseGame
  \/ AcquisitionResumeGame
  \/ AcquisitionTimerFires
  \/ AcquisitionNextChallengeFires
  \/ AcquisitionEndGameFires
  \/ AcquisitionGraceDelayFires

SpecAcquisition == InitAcquisition /\ [][AcquisitionNext]_vars

----------------------------------------------------------------------------
(* Bursts of submissions: one game on the open-ended registration, the    *)
(* player submitting several answers within the pacing delays; the        *)
(* countdown never gets to tick and the game is never paused.             *)

BurstLimits ==
  [games |-> 1, challenges |-> BurstChallenges, answers |-> BurstAnswers,
   pending |-> BurstPending, leaked |-> 0]

InitOpenEnded ==
  /\ state = getInitialState
  /\ currentChallenge = NoChallenge
  /\ challenges = OpenEndedChallenges
  /\ leaked = 0
  /\ timeouts = [c \in Callbacks |-> 0]
  /\ emitted = <<>>
  /\ games = 0
  /\ loads = 0
  /\ answers = 0
  /\ livesReachedZero = FALSE
  /\ gameOverCount = 0
  /\ statsCalls = 0
  /\ graded = {}
  /\ wrongFor = [c \in Categories |-> 0]
  /\ called = Call("constructor", <<>>)
  /\ eventHandlers = [event \in EventNames |-> <<>>]
  /\ delivered = <<>>
  /\ effects = <<>>
  /\ dispatched = <<>>

BurstStartGame ==
  /\ \E random \in Randoms : Commit(startGame(Called, random), BurstLimits)
  /\ called' = Call("startGame", <<>>)
  /\ UNCHANGED <<challenges, eventHandlers, delivered>>

BurstSubmitAnswer ==
  /\ \E answer \in Answers : Commit(submitAnswer(Called, answer), BurstLimits)
  /\ called' = Call("submitAnswer", <<>>)
  /\ UNCHANGED <<challenges, eventHandlers, delivered>>

BurstNextChallengeFires ==
  /\ timeouts["nextChallenge"] > 0
  /\ \E random \in Randoms :
       Commit(nextChallenge(Fired("nextChallenge"), random), BurstLimits)
  /\ called' = Call("nextChallenge", <<>>)
  /\ UNCHANGED <<challenges, eventHandlers, delivered>>

BurstEndGameFires ==
  /\ timeouts["endGame"] > 0
  /\ Commit(endGame(Fired("endGame")), BurstLimits)
  /\ called' = Call("endGame", <<>>)
  /\ UNCHANGED <<challenges, eventHandlers, delivered>>

BurstGraceDelayFires ==
  /\ timeouts["startTimer"] > 0
  /\ Commit(startTimer(Fired("startTimer")), BurstLimits)
  /\ called' = Call("startTimer", <<>>)
  /\ UNCHANGED <<challenges, eventHandlers, delivered>>

BurstNext ==
  \/ BurstStartGame
  \/ BurstSubmitAnswer
  \/ BurstNextChallengeFires
  \/ BurstEndGameFires
  \/ BurstGraceDelayFires

SpecBurst == InitOpenEnded /\ [][BurstNext]_vars

----------------------------------------------------------------------------
(* An inactive player: one game in which nothing is ever submitted and    *)
(* the game is never paused; only the timers run.                         *)

IdleLimits ==
  [games |-> 1, challenges |-> IdleChallenges, answers |-> IdleChallenges,
   pending |-> 1, leaked |-> 0]

IdleStartGame ==
  /\ \E random \in Randoms : Commit(startGame(Called, random), IdleLimits)
  /\ called' = Call("startGame", <<>>)
  /\ UNCHANGED <<challenges, eventHandlers, delivered>>

IdleTimerFires ==
  /\ state.timerInterval # NULL \/ leaked > 0
  /\ Commit(timerCallback(Called), IdleLimits)
  /\ called' = Call("timerCallback", <<>>)
  /\ UNCHANGED <<challenges, eventHandlers, delivered>>

IdleNextChallengeFires ==
  /\ timeouts["nextChallenge"] > 0
  /\ \E random \in Randoms :
       Commit(nextChallenge(Fired("nextChallenge"), random), IdleLimits)
  /\ called' = Call("nextChallenge", <<>>)
  /\ UNCHANGED <<challenges, eventHandlers, delivered>>

IdleEndGameFires ==
  /\ timeouts["endGame"] > 0
  /\ Commit(endGame(Fired("endGame")), IdleLimits)
  /\ called' = Call("endGame", <<>>)
  /\ UNCHANGED <<challenges, eventHandlers, delivered>>

IdleGraceDelayFires ==
  /\ timeouts["startTimer"] > 0
  /\ Commit(startTimer(Fired("startTimer")), IdleLimits)
  /\ called' = Call("startTimer", <<>>)
  /\ UNCHANGED <<challenges, eventHandlers, delivered>>

IdleNext ==
  \/ IdleStartGame
  \/ IdleTimerFires
  \/ IdleNextChallengeFires
  \/ IdleEndGameFires
  \/ IdleGraceDelayFires

SpecIdle == InitOpenEnded /\ [][IdleNext]_vars

(* The inactive player with the timers of the event loop firing: a        *)
(* pending setTimeout callback and a live setInterval callback are run by  *)
(* the browser after their delay, so each of them fires eventually while   *)
(* it stays pending.  startGame is the player's and is not forced.         *)
SpecIdleFair ==
  /\ InitOpenEnded
  /\ [][IdleNext]_vars
  /\ WF_vars(IdleTimerFires)
  /\ WF_vars(IdleNextChallengeFires)
  /\ WF_vars(IdleEndGameFires)
  /\ WF_vars(IdleGraceDelayFires)

----------------------------------------------------------------------------
(* A player who gives every challenge presented exactly one answer, a      *)
(* wrong one, before its time runs out; the game is never paused.          *)

AllWrongLimits ==
  [games |-> 1, challenges |-> AllWrongChallenges, answers |-> AllWrongChallenges,
   pending |-> 2, leaked |-> 0]

AllWrongStartGame ==
  /\ \E random \in Randoms : Commit(startGame(Called, random), AllWrongLimits)
  /\ called' = Call("startGame", <<>>)
  /\ UNCHANGED <<challenges, eventHandlers, delivered>>

AllWrongSubmitAnswer ==
  /\ state.isPlaying
  /\ graded = {}
  /\ \E answer \in Answers :
       /\ ~check(currentChallenge, answer)
       /\ Commit(submitAnswer(Called, answer), AllWrongLimits)
  /\ called' = Call("submitAnswer", <<>>)
  /\ UNCHANGED <<challenges, eventHandlers, delivered>>

AllWrongTimerFires ==
  /\ state.timerInterval # NULL \/ leaked > 0
  /\ state.timeRemaining > 1
  /\ Commit(timerCallback(Called), AllWrongLimits)
  /\ called' = Call("timerCallback", <<>>)
  /\ UNCHANGED <<challenges, eventHandlers, delivered>>

AllWrongNextChallengeFires ==
  /\ timeouts["nextChallenge"] > 0
  /\ \E random \in Randoms :
       Commit(nextChallenge(Fired("nextChallenge"), random), AllWrongLimits)
  /\ called' = Call("nextChallenge", <<>>)
  /\ UNCHANGED <<challenges, eventHandlers, delivered>>

AllWrongEndGameFires ==
  /\ timeouts["endGame"] > 0
  /\ Commit(endGame(Fired("endGame")), AllWrongLimits)
  /\ called' = Call("endGame", <<>>)
  /\ UNCHANGED <<challenges, eventHandlers, delivered>>

AllWrongGraceDelayFires ==
  /\ timeouts["startTimer"] > 0
  /\ Commit(startTimer(Fired("startTimer")), AllWrongLimits)
  /\ called' = Call("startTimer", <<>>)
  /\ UNCHANGED <<challenges, eventHandlers, delivered>>

AllWrongNext ==
  \/ AllWrongStartGame
  \/ AllWrongSubmitAnswer
  \/ AllWrongTimerFires
  \/ AllWrongNextChallengeFires
  \/ AllWrongEndGameFires
  \/ AllWrongGraceDelayFires

SpecAllWrong == InitOpenEnded /\ [][AllWrongNext]_vars

----------------------------------------------------------------------------
(* A faultless player: one game per category in which every challenge is   *)
(* answered correctly, once, so that the difficulty climbs level by level. *)

ScalerLimits ==
  [games |-> 1, challenges |-> ScalerLevels, answers |-> ScalerLevels,
   pending |-> 1, leaked |-> 0]

InitCategory ==
  /\ state = getInitialState
  /\ currentChallenge = NoChallenge
  /\ challenges \in CategoryChallenges
  /\ leaked = 0
  /\ timeouts = [c \in Callbacks |-> 0]
  /\ emitted = <<>>
  /\ games = 0
  /\ loads = 0
  /\ answers = 0
  /\ livesReachedZero = FALSE
  /\ gameOverCount = 0
  /\ statsCalls = 0
  /\ graded = {}
  /\ wrongFor = [c \in Categories |-> 0]
  /\ called = Call("constructor", <<>>)
  /\ eventHandlers = [event \in EventNames |-> <<>>]
  /\ delivered = <<>>
  /\ effects = <<>>
  /\ dispatched = <<>>

ScalerStartGame ==
  /\ \E random \in Randoms : Commit(startGame(Called, random), ScalerLimits)
  /\ called' = Call("startGame", <<>>)
  /\ UNCHANGED <<challenges, eventHandlers, delivered>>

ScalerSubmitAnswer ==
  /\ state.isPlaying
  /\ graded = {}
  /\ \E answer \in Answers :
       /\ check(currentChallenge, answer)
       /\ Commit(submitAnswer(Called, answer), ScalerLimits)
  /\ called' = Call("submitAnswer", <<>>)
  /\ UNCHANGED <<challenges, eventHandlers, delivered>>

ScalerNextChallengeFires ==
  /\ timeouts["nextChallenge"] > 0
  /\ \E random \in Randoms :
       Commit(nextChallenge(Fired("nextChallenge"), random), ScalerLimits)
  /\ called' = Call("nextChallenge", <<>>)
  /\ UNCHANGED <<challenges, eventHandlers, delivered>>

ScalerGraceDelayFires ==
  /\ timeouts["startTimer"] > 0
  /\ Commit(startTimer(Fired("startTimer")), ScalerLimits)
  /\ called' = Call("startTimer", <<>>)
  /\ UNCHANGED <<challenges, eventHandlers, delivered>>

ScalerNext ==
  \/ ScalerStartGame
  \/ ScalerSubmitAnswer
  \/ ScalerNextChallengeFires
  \/ ScalerGraceDelayFires

SpecScaler == InitCategory /\ [][ScalerNext]_vars

----------------------------------------------------------------------------
(* Playing again: startGame is called only when no game is being played    *)
(* (the first start and the restarts after a game is over), the game is    *)
(* never paused, and the callbacks a game has scheduled may still be       *)
(* pending when the next game starts.                                      *)

RestartLimits ==
  [games |-> MaxGames, challenges |-> RestartChallenges, answers |-> RestartAnswers,
   pending |-> MaxPending, leaked |-> MaxLeaked]

RestartStartGame ==
  /\ ~state.isPlaying
  /\ \E random \in Randoms : Commit(startGame(Called, random), RestartLimits)
  /\ called' = Call("startGame", <<>>)
  /\ UNCHANGED <<challenges, eventHandlers, delivered>>

RestartSubmitAnswer ==
  /\ PlayerActs
  /\ \E answer \in Answers : Commit(submitAnswer(Called, answer), RestartLimits)
  /\ called' = Call("submitAnswer", <<>>)
  /\ UNCHANGED <<challenges, eventHandlers, delivered>>

RestartTimerFires ==
  /\ state.timerInterval # NULL \/ leaked > 0
  /\ Commit(timerCallback(Called), RestartLimits)
  /\ called' = Call("timerCallback", <<>>)
  /\ UNCHANGED <<challenges, eventHandlers, delivered>>

RestartNextChallengeFires ==
  /\ timeouts["nextChallenge"] > 0
  /\ \E random \in Randoms :
       Commit(nextChallenge(Fired("nextChallenge"), random), RestartLimits)
  /\ called' = Call("nextChallenge", <<>>)
  /\ UNCHANGED <<challenges, eventHandlers, delivered>>

RestartEndGameFires ==
  /\ timeouts["endGame"] > 0
  /\ Commit(endGame(Fired("endGame")), RestartLimits)
  /\ called' = Call("endGame", <<>>)
  /\ UNCHANGED <<challenges, eventHandlers, delivered>>

RestartGraceDelayFires ==
  /\ timeouts["startTimer"] > 0
  /\ Commit(startTimer(Fired("startTimer")), RestartLimits)
  /\ called' = Call("startTimer", <<>>)
  /\ UNCHANGED <<challenges, eventHandlers, delivered>>

RestartNext ==
  \/ RestartStartGame
  \/ RestartSubmitAnswer
  \/ RestartTimerFires
  \/ RestartNextChallengeFires
  \/ RestartEndGameFires
  \/ RestartGraceDelayFires

SpecRestart == InitAcquisition /\ [][RestartNext]_vars

----------------------------------------------------------------------------
(* The registry being filled at module load: any sequence of register,    *)
(* unregister and clear calls on two ids, then one startGame drawing from  *)
(* what is registered.                                                     *)

Ids == {"arithmetic", "division"}

Factories == {"createArithmeticChallenge", "createDivisionChallenge"}

MetadataInputs ==
  [minDifficulty : {0, 1, 3}, maxDifficulty : 0..MaxWindow, baseTime : {0, 300, 400}]

RegistryLimits ==
  [games |-> 1, challenges |-> 1, answers |-> 0, pending |-> 1, leaked |-> 0]

InitEmpty ==
  /\ state = getInitialState
  /\ currentChallenge = NoChallenge
  /\ challenges = <<>>
  /\ leaked = 0
  /\ timeouts = [c \in Callbacks |-> 0]
  /\ emitted = <<>>
  /\ games = 0
  /\ loads = 0
  /\ answers = 0
  /\ livesReachedZero = FALSE
  /\ gameOverCount = 0
  /\ statsCalls = 0
  /\ graded = {}
  /\ wrongFor = [c \in Categories |-> 0]
  /\ called = Call("constructor", <<>>)
  /\ eventHandlers = [event \in EventNames |-> <<>>]
  /\ delivered = <<>>
  /\ effects = <<>>
  /\ dispatched = <<>>

RegisterChallenge ==
  /\ games = 0
  /\ \E id \in Ids, category \in {"math", "logic"}, create \in Factories,
        metadata \in MetadataInputs :
       /\ challenges' = register(challenges, id, category, create, metadata)
       /\ called' = Call("register", <<id, category, create, metadata>>)
  /\ UNCHANGED <<state, currentChallenge, leaked, timeouts, emitted, games, loads,
                 answers, livesReachedZero, gameOverCount, statsCalls, graded,
                 wrongFor, eventHandlers, delivered, effects, dispatched>>

Unregister ==
  /\ games = 0
  /\ \E id \in Ids :
       /\ challenges' = unregister(challenges, id)
       /\ called' = Call("unregister", <<id>>)
  /\ UNCHANGED <<state, currentChallenge, leaked, timeouts, emitted, games, loads,
                 answers, livesReachedZero, gameOverCount, statsCalls, graded,
                 wrongFor, eventHandlers, delivered, effects, dispatched>>

Clear ==
  /\ games = 0
  /\ challenges' = clear(challenges)
  /\ called' = Call("clear", <<>>)
  /\ UNCHANGED <<state, currentChallenge, leaked, timeouts, emitted, games, loads,
                 answers, livesReachedZero, gameOverCount, statsCalls, graded,
                 wrongFor, eventHandlers, delivered, effects, dispatched>>

RegistryStartGame ==
  /\ \E random \in Randoms : Commit(startGame(Called, random), RegistryLimits)
  /\ called' = Call("startGame", <<>>)
  /\ UNCHANGED <<challenges, eventHandlers, delivered>>

RegistryNext ==
  \/ RegisterChallenge
  \/ Unregister
  \/ Clear
  \/ RegistryStartGame

SpecRegistry == InitEmpty /\ [][RegistryNext]_vars

----------------------------------------------------------------------------
(* The event system on its own: handlers are subscribed and unsubscribed   *)
(* and events are emitted, with no game being played.                      *)

Subscribe ==
  /\ \E event \in EventNames, handler \in Handlers :
       /\ Len(eventHandlers[event]) < MaxSubscriptions
       /\ eventHandlers' = on(eventHandlers, event, handler)
       /\ called' = Call("on", <<event, handler>>)
  /\ emitted' = <<>>
  /\ delivered' = <<>>
  /\ effects' = <<>>
  /\ UNCHANGED <<state, currentChallenge, challenges, leaked, timeouts, games, loads,
                 answers, livesReachedZero, gameOverCount, statsCalls, graded,
                 wrongFor, dispatched>>

Unsubscribe ==
  /\ \E event \in EventNames, handler \in Handlers :
       /\ eventHandlers' = off(eventHandlers, event, handler)
       /\ called' = Call("off", <<event, handler>>)
  /\ emitted' = <<>>
  /\ delivered' = <<>>
  /\ effects' = <<>>
  /\ UNCHANGED <<state, currentChallenge, challenges, leaked, timeouts, games, loads,
                 answers, livesReachedZero, gameOverCount, statsCalls, graded,
                 wrongFor, dispatched>>

Emit ==
  /\ \E event \in EventNames, data \in Answers :
       /\ emitted' = <<[name |-> event, data |-> data]>>
       /\ delivered' = forEach(eventHandlers, event, data)
       /\ effects' = <<>>
       /\ called' = Call("emit", <<event, data>>)
  /\ UNCHANGED <<state, currentChallenge, challenges, leaked, timeouts, games, loads,
                 answers, livesReachedZero, gameOverCount, statsCalls, graded,
                 wrongFor, eventHandlers, dispatched>>

EventsNext ==
  \/ Subscribe
  \/ Unsubscribe
  \/ Emit

SpecEvents == InitEmpty /\ [][EventsNext]_vars

----------------------------------------------------------------------------
(* The whole life cycle: the operations of a game together with destroy,  *)
(* with few submissions, so that most lives are lost to timeouts.          *)

LifecycleLimits ==
  [games |-> MaxGames, challenges |-> MaxChallenges, answers |-> LifecycleAnswers,
   pending |-> MaxPending, leaked |-> MaxLeaked]

LifecycleStartGame ==
  /\ \E random \in Randoms : Commit(startGame(Called, random), LifecycleLimits)
  /\ called' = Call("startGame", <<>>)
  /\ UNCHANGED <<challenges, eventHandlers, delivered>>

LifecycleSubmitAnswer ==
  /\ PlayerActs
  /\ \E answer \in Answers : Commit(submitAnswer(Called, answer), LifecycleLimits)
  /\ called' = Call("submitAnswer", <<>>)
  /\ UNCHANGED <<challenges, eventHandlers, delivered>>

LifecyclePauseGame ==
  /\ PlayerActs
  /\ Commit(pauseGame(Called), LifecycleLimits)
  /\ called' = Call("pauseGame", <<>>)
  /\ UNCHANGED <<challenges, eventHandlers, delivered>>

LifecycleResumeGame ==
  /\ PlayerActs
  /\ Commit(resumeGame(Called), LifecycleLimits)
  /\ called' = Call("resumeGame", <<>>)
  /\ UNCHANGED <<challenges, eventHandlers, delivered>>

LifecycleTimerFires ==
  /\ state.timerInterval # NULL \/ leaked > 0
  /\ Commit(timerCallback(Called), LifecycleLimits)
  /\ called' = Call("timerCallback", <<>>)
  /\ UNCHANGED <<challenges, eventHandlers, delivered>>

LifecycleNextChallengeFires ==
  /\ timeouts["nextChallenge"] > 0
  /\ \E random \in Randoms :
       Commit(nextChallenge(Fired("nextChallenge"), random), LifecycleLimits)
  /\ called' = Call("nextChallenge", <<>>)
  /\ UNCHANGED <<challenges, eventHandlers, delivered>>

LifecycleEndGameFires ==
  /\ timeouts["endGame"] > 0
  /\ Commit(endGame(Fired("endGame")), LifecycleLimits)
  /\ called' = Call("endGame", <<>>)
  /\ UNCHANGED <<challenges, eventHandlers, delivered>>

LifecycleGraceDelayFires ==
  /\ timeouts["startTimer"] > 0
  /\ Commit(startTimer(Fired("startTimer")), LifecycleLimits)
  /\ called' = Call("startTimer", <<>>)
  /\ UNCHANGED <<challenges, eventHandlers, delivered>>

Destroy ==
  /\ PlayerActs
  /\ Commit(destroy(Called), LifecycleLimits)
  /\ eventHandlers' = [event \in EventNames |-> <<>>]
  /\ called' = Call("destroy", <<>>)
  /\ UNCHANGED <<challenges, delivered>>

LifecycleNext ==
  \/ LifecycleStartGame
  \/ LifecycleSubmitAnswer
  \/ LifecyclePauseGame
  \/ LifecycleResumeGame
  \/ LifecycleTimerFires
  \/ LifecycleNextChallengeFires
  \/ LifecycleEndGameFires
  \/ LifecycleGraceDelayFires
  \/ Destroy

SpecLifecycle == Init /\ [][LifecycleNext]_vars

----------------------------------------------------------------------------
(* Clicks on the cups: one game on the cup-shuffle registration; each      *)
(* click schedules its dispatch, and the window listener of the App        *)
(* submits the dispatched answer to the engine.                            *)

ClickLimits ==
  [games |-> 1, challenges |-> ClickChallenges, answers |-> ClickAnswers,
   pending |-> 2, leaked |-> 0]

InitCups ==
  /\ state = getInitialState
  /\ currentChallenge = NoChallenge
  /\ challenges = CupChallenges
  /\ leaked = 0
  /\ timeouts = [c \in Callbacks |-> 0]
  /\ emitted = <<>>
  /\ games = 0
  /\ loads = 0
  /\ answers = 0
  /\ livesReachedZero = FALSE
  /\ gameOverCount = 0
  /\ statsCalls = 0
  /\ graded = {}
  /\ wrongFor = [c \in Categories |-> 0]
  /\ called = Call("constructor", <<>>)
  /\ eventHandlers = [event \in EventNames |-> <<>>]
  /\ delivered = <<>>
  /\ effects = <<>>
  /\ dispatched = <<>>

ClickStartGame ==
  /\ \E random \in Randoms : Commit(startGame(Called, random), ClickLimits)
  /\ called' = Call("startGame", <<>>)
  /\ UNCHANGED <<challenges, eventHandlers, delivered>>

Click ==
  /\ PlayerActs
  /\ state.isPlaying
  /\ currentChallenge # NoChallenge
  /\ Len(dispatched) < MaxDispatches
  /\ \E answer \in Answers : Commit(click(Called, answer), ClickLimits)
  /\ called' = Call("click", <<>>)
  /\ UNCHANGED <<challenges, eventHandlers, delivered>>

DispatchFires ==
  /\ dispatched # <<>>
  /\ Commit(submitAnswer([Called EXCEPT !.dispatched = Tail(@)],
                         Head(dispatched).answer), ClickLimits)
  /\ called' = Call("challengeAnswer", <<Head(dispatched).answer>>)
  /\ UNCHANGED <<challenges, eventHandlers, delivered>>

ClickTimerFires ==
  /\ state.timerInterval # NULL \/ leaked > 0
  /\ Commit(timerCallback(Called), ClickLimits)
  /\ called' = Call("timerCallback", <<>>)
  /\ UNCHANGED <<challenges, eventHandlers, delivered>>

ClickNextChallengeFires ==
  /\ timeouts["nextChallenge"] > 0
  /\ \E random \in Randoms :
       Commit(nextChallenge(Fired("nextChallenge"), random), ClickLimits)
  /\ called' = Call("nextChallenge", <<>>)
  /\ UNCHANGED <<challenges, eventHandlers, delivered>>

ClickEndGameFires ==
  /\ timeouts["endGame"] > 0
  /\ Commit(endGame(Fired("endGame")), ClickLimits)
  /\ called' = Call("endGame", <<>>)
  /\ UNCHANGED <<challenges, eventHandlers, delivered>>

ClickGraceDelayFires ==
  /\ timeouts["startTimer"] > 0
  /\ Commit(startTimer(Fired("startTimer")), ClickLimits)
  /\ called' = Call("startTimer", <<>>)
  /\ UNCHANGED <<challenges, eventHandlers, delivered>>

ClickNext ==
  \/ ClickStartGame
  \/ Click
  \/ DispatchFires
  \/ ClickTimerFires
  \/ ClickNextChallengeFires
  \/ ClickEndGameFires
  \/ ClickGraceDelayFires

SpecClicks == InitCups /\ [][ClickNext]_vars

----------------------------------------------------------------------------
(* Properties *)

Has(events, name) == \E i \in DOMAIN events : events[i].name = name

Sum(f) == f["math"] + f["logic"] + f["memory"] + f["puzzle"]

(* C1: Lives bound.  In every reachable state 0 <= lives <= maxLives,     *)
(* whatever the order of startGame, submissions (several of them before    *)
(* the pacing delay has loaded the next challenge), timeouts, pause,       *)
(* resume and delayed callbacks.                                           *)
LivesBound ==
  /\ 0 <= state.lives
  /\ state.lives <= state.maxLives
  /\ state.maxLives = 5

(* C2: Exclusive termination.  Once lives has reached 0 in a game, no      *)
(* challengeReady event is emitted for that game afterwards.               *)
NoChallengeAfterLivesReachedZero ==
  ~(livesReachedZero /\ Has(emitted, "challengeReady"))

(* C3: Exactly one gameOver per game.  A game that has ended has emitted   *)
(* exactly one gameOver and has called updateGameStats exactly once; a     *)
(* game still playing has emitted none; further endGame calls add nothing. *)
OneGameOverPerGame ==
  /\ gameOverCount <= 1
  /\ statsCalls = gameOverCount
  /\ (games >= 1 /\ ~state.isPlaying) => gameOverCount = 1
  /\ state.isPlaying => gameOverCount = 0

(* Two endGame callbacks of one game have fired, the second as a no-op.    *)
SecondEndGameWasNoOp ==
  /\ state.lives < 0
  /\ timeouts["endGame"] = 0
  /\ ~state.isPlaying
  /\ gameOverCount = 1
  /\ emitted = <<>>

(* C4: Counter invariant.  correctAnswers + wrongAnswers never exceeds     *)
(* totalChallenges: no instance contributes more than one graded outcome.  *)
CounterInvariant ==
  state.correctAnswers + state.wrongAnswers <= state.totalChallenges

(* C5: Tick/submission exclusion.  A countdown timeout and a submitAnswer  *)
(* never both apply to the same challenge instance.                        *)
TickSubmissionExclusion ==
  ~({"submit", "timeout"} \subseteq graded)

(* C6: Attempts accounting.  For every category attempts equals correct    *)
(* plus wrong outcomes (wrong submissions and timeouts), and whenever no   *)
(* challenge awaits an answer the attempts sum up to totalChallenges.      *)
AwaitingAnswer == state.isPlaying /\ graded = {}

AttemptsAccounting ==
  /\ \A c \in Categories :
       state.categoryStats[c].attempts =
         state.categoryStats[c].correct + wrongFor[c]
  /\ ~AwaitingAnswer =>
       Sum([c \in Categories |-> state.categoryStats[c].attempts])
         = state.totalChallenges

(* C7: Streak reset law.  winStreak is 0, 1 or 2 after every engine        *)
(* operation; it is 0 after a wrong answer or a timeout; it is 0 after the *)
(* third consecutive correct answer, whether or not a life was granted.    *)
StreakResetLaw ==
  /\ [](/\ state.winStreak \in {0, 1, 2}
        /\ Has(emitted, "answerWrong") => state.winStreak = 0)
  /\ [][(state.winStreak = 2 /\ Has(emitted', "answerCorrect"))
          => state'.winStreak = 0]_vars

(* The third correct answer in a row at full health: the streak is reset   *)
(* and no life is granted.                                                 *)
StreakConsumedAtFullHealth ==
  /\ Has(emitted, "answerCorrect")
  /\ ~Has(emitted, "lifeGained")
  /\ state.correctAnswers = 3
  /\ state.wrongAnswers = 0
  /\ state.winStreak = 0
  /\ state.lives = 5

(* C8: Monotonic difficulty.  Between two startGame calls difficulty never *)
(* decreases; a correct answer raises it by exactly 1; every other         *)
(* operation leaves it unchanged.                                          *)
MonotonicDifficulty ==
  [][/\ games' = games => state'.difficulty >= state.difficulty
     /\ Has(emitted', "answerCorrect") => state'.difficulty = state.difficulty + 1
     /\ (games' = games /\ ~Has(emitted', "answerCorrect"))
          => state'.difficulty = state.difficulty]_vars

(* A raised difficulty has survived a wrong answer, a timeout and a pause. *)
DifficultyKeptAfterMisses ==
  /\ state.difficulty >= 2
  /\ state.wrongAnswers >= 1
  /\ Has(emitted, "timeout")
  /\ state.isPaused

(* C9 as stated: currentChallenge is non-null exactly when the game is     *)
(* playing and not paused.                                                 *)
ActiveChallengeInvariant ==
  (state.isPlaying /\ ~state.isPaused) <=> currentChallenge # NoChallenge

(* C9 amended: currentChallenge is non-null whenever the game is playing,  *)
(* paused or not, and it is null only until the first instance has been    *)
(* created: it keeps the last instance while paused and after the end.     *)
ActiveChallengeWhilePlaying ==
  /\ state.isPlaying => currentChallenge # NoChallenge
  /\ currentChallenge = NoChallenge <=> loads = 0

(* A game that ended while paused still holds its last instance.           *)
InstanceKeptWhenPausedAndEnded ==
  /\ ~state.isPlaying
  /\ state.isPaused
  /\ gameOverCount = 1
  /\ currentChallenge # NoChallenge

(* C10: Pause freezes the countdown.  While the game stays paused          *)
(* timeRemaining does not change and neither timerTick nor timeout is      *)
(* emitted.                                                                *)
PauseFreezesCountdown ==
  [][(state.isPaused /\ state'.isPaused /\ games' = games)
       => /\ state'.timeRemaining = state.timeRemaining
          /\ ~Has(emitted', "timerTick")
          /\ ~Has(emitted', "timeout")]_vars

(* C11: Submission while paused is ignored.  A submitAnswer call made      *)
(* while the game is paused changes nothing of the game state (score,      *)
(* lives, difficulty, winStreak, correctAnswers, wrongAnswers,             *)
(* categoryStats) and emits neither answerCorrect nor answerWrong.         *)
SubmissionWhilePausedIgnored ==
  [][(called'.name = "submitAnswer" /\ state.isPaused)
       => /\ state'.score = state.score
          /\ state'.lives = state.lives
          /\ state'.difficulty = state.difficulty
          /\ state'.winStreak = state.winStreak
          /\ state'.correctAnswers = state.correctAnswers
          /\ state'.wrongAnswers = state.wrongAnswers
          /\ state'.categoryStats = state.categoryStats
          /\ ~Has(emitted', "answerCorrect")
          /\ ~Has(emitted', "answerWrong")]_vars

(* C12: Misuse calls are no-ops.  submitAnswer when not playing or with no *)
(* current challenge, pauseGame when not playing or already paused and     *)
(* resumeGame when not playing or not paused leave the game state, the     *)
(* current challenge, the countdown and the scheduled callbacks unchanged  *)
(* and emit no event.                                                      *)
MisuseIsNoOp ==
  [][LET misuse ==
           \/ /\ called'.name = "submitAnswer"
              /\ ~state.isPlaying \/ currentChallenge = NoChallenge
           \/ /\ called'.name = "pauseGame"
              /\ ~state.isPlaying \/ state.isPaused
           \/ /\ called'.name = "resumeGame"
              /\ ~state.isPlaying \/ ~state.isPaused
     IN misuse => /\ state' = state
                  /\ currentChallenge' = currentChallenge
                  /\ timeouts' = timeouts
                  /\ leaked' = leaked
                  /\ emitted' = <<>>]_vars

(* An answer submitted after the game is over has been ignored, with the   *)
(* grace-delay continuation of the last challenge still pending.           *)
SubmissionAfterGameOverIgnored ==
  /\ called.name = "submitAnswer"
  /\ ~state.isPlaying
  /\ gameOverCount = 1
  /\ currentChallenge # NoChallenge
  /\ timeouts["startTimer"] > 0
  /\ emitted = <<>>

(* C13: Acquisition failure fails closed.  When nextChallenge runs (from   *)
(* a pacing-delay callback or from startGame) and no record is eligible at *)
(* the current difficulty, or the factory of the eligible record throws,   *)
(* the game ends with exactly one gameOver, no challengeReady is emitted,  *)
(* totalChallenges and the current instance are unchanged, and neither a   *)
(* retry nor a countdown is scheduled.                                     *)
Unavailable(difficulty) ==
  \A random \in Randoms :
    LET result == getRandomChallenge(challenges, difficulty, random)
    IN result.threw \/ factory(result.value, difficulty).threw

AcquisitionFailureFailsClosed ==
  [][/\ (/\ called'.name = "nextChallenge"
         /\ state.isPlaying
         /\ state.lives > 0
         /\ Unavailable(state.difficulty))
          => /\ ~state'.isPlaying
             /\ gameOverCount' = 1
             /\ statsCalls' = 1
             /\ Len(emitted') = 1
             /\ emitted'[1].name = "gameOver"
             /\ state'.totalChallenges = state.totalChallenges
             /\ loads' = loads
             /\ currentChallenge' = currentChallenge
             /\ timeouts' = [timeouts EXCEPT !["nextChallenge"] = @ - 1]
             /\ state'.timerInterval = NULL
     /\ (called'.name = "startGame" /\ Unavailable(1))
          => /\ ~state'.isPlaying
             /\ gameOverCount' = 1
             /\ statsCalls' = 1
             /\ Len(emitted') = 2
             /\ emitted'[1].name = "gameStart"
             /\ emitted'[2].name = "gameOver"
             /\ state'.totalChallenges = 0
             /\ loads' = loads
             /\ currentChallenge' = currentChallenge
             /\ timeouts' = timeouts]_vars

(* The factory selected for difficulty 2 has thrown in a pacing-delay      *)
(* callback and the game has ended with lives to spare.                    *)
GameEndedByThrowingFactory ==
  /\ called.name = "nextChallenge"
  /\ challenges = BrokenChallenges
  /\ state.difficulty = 2
  /\ state.lives > 0
  /\ ~state.isPlaying
  /\ Has(emitted, "gameOver")

(* C14: Timer floor.  getBaseTimer(base, difficulty) is at least 5 s (50   *)
(* tenths) for every difficulty >= 1 and every nominal base time, bases    *)
(* below 5 s included, and so are the state.baseTime the engine stores and *)
(* the timeLimit it announces for every challenge.                         *)
MinTimer == 50

NominalBaseTimes == (0..(MinTimer + 10)) \cup {150, 200, 300, 350, 400, 450}

TimerFloor ==
  /\ \A base \in NominalBaseTimes \cup {challenges[1].metadata.baseTime} :
       \A difficulty \in 1..ScalerLevels :
         getBaseTimer(base, difficulty) >= MinTimer
  /\ state.baseTime >= MinTimer
  /\ \A i \in DOMAIN emitted :
       emitted[i].name = "challengeReady" => emitted[i].timeLimit >= MinTimer

(* The 15 s challenge loaded at difficulty 63: the reduction of 10.5 s     *)
(* would give 4.5 s and the countdown is set to 5 s.                       *)
TimerRaisedToFloor ==
  /\ called.name = "nextChallenge"
  /\ Has(emitted, "challengeReady")
  /\ challenges[1].metadata.baseTime = 150
  /\ state.difficulty = 63
  /\ getBaseTimerUnlimited(150, 63) < MinTimer
  /\ state.baseTime = MinTimer
  /\ state.timeRemaining = MinTimer

(* C15: Registry selection.  For every registry contents and difficulty,   *)
(* getRandomChallenge returns one of the registered records whose window   *)
(* minDifficulty <= difficulty <= maxDifficulty holds, every such record   *)
(* is returned for some random draw, and it fails exactly when no record   *)
(* is eligible; the selection startGame makes at difficulty 1 follows the  *)
(* same rule and leaves the registry unchanged.                            *)
InWindow(difficulty) ==
  {i \in DOMAIN challenges :
     /\ challenges[i].metadata.minDifficulty <= difficulty
     /\ difficulty <= challenges[i].metadata.maxDifficulty}

RegistrySelection ==
  /\ [](\A difficulty \in 1..MaxDifficulty :
          /\ \A random \in Randoms :
               LET result == getRandomChallenge(challenges, difficulty, random)
               IN /\ result.threw <=> InWindow(difficulty) = {}
                  /\ ~result.threw =>
                       \E i \in InWindow(difficulty) : result.value = challenges[i]
          /\ \A i \in InWindow(difficulty) :
               \E random \in Randoms :
                 getRandomChallenge(challenges, difficulty, random).value = challenges[i])
  /\ [][called'.name = "startGame"
          => /\ challenges' = challenges
             /\ state'.isPlaying <=> InWindow(1) # {}
             /\ state'.isPlaying =>
                  \E i \in InWindow(1) :
                    /\ currentChallenge' = factory(challenges[i], 1).value
                    /\ state'.baseTime = challenges[i].metadata.baseTime]_vars

(* Two records are eligible at difficulty 1 and none at difficulty 2, and  *)
(* startGame has drawn the second one.                                     *)
SecondEligibleRecordDrawn ==
  /\ called.name = "startGame"
  /\ Len(challenges) = 2
  /\ InWindow(1) = {1, 2}
  /\ InWindow(2) = {}
  /\ state.isPlaying
  /\ challenges[1].factory # challenges[2].factory
  /\ currentChallenge = factory(challenges[2], 1).value

(* C16: Registration is last-write-wins.  No id is registered twice in the *)
(* registry; a register call leaves exactly one record for its id, holding *)
(* the category, the factory and the metadata of that call (absent fields  *)
(* defaulted), and leaves the records of the other ids as they were;       *)
(* getCount grows by one for a new id and not at all for a registered id;  *)
(* registering the same arguments again changes nothing.                   *)
Given(value, default) == IF value = 0 THEN default ELSE value

RegisterLastWriteWins ==
  /\ [](\A i, j \in DOMAIN challenges :
          challenges[i].id = challenges[j].id => i = j)
  /\ [][called'.name = "register"
          => LET id == called'.args[1]
                 category == called'.args[2]
                 create == called'.args[3]
                 metadata == called'.args[4]
                 registered == \E i \in DOMAIN challenges : challenges[i].id = id
             IN /\ Cardinality({i \in DOMAIN challenges' : challenges'[i].id = id}) = 1
                /\ \A i \in DOMAIN challenges' :
                     challenges'[i].id = id =>
                       /\ challenges'[i].category = category
                       /\ challenges'[i].factory = create
                       /\ challenges'[i].metadata =
                            [minDifficulty |-> Given(metadata.minDifficulty, 1),
                             maxDifficulty |-> Given(metadata.maxDifficulty, Infinity),
                             baseTime |-> Given(metadata.baseTime, 200)]
                /\ \A i \in DOMAIN challenges :
                     challenges[i].id # id => challenges'[i] = challenges[i]
                /\ getCount(challenges') =
                     IF registered THEN getCount(challenges)
                     ELSE getCount(challenges) + 1
                /\ register(challenges', id, category, create, metadata)
                     = challenges']_vars

(* The id registered first has been registered again after a second id:   *)
(* its record, still the first of two, holds the new base time.            *)
FirstIdRegisteredAgain ==
  /\ called.name = "register"
  /\ getCount(challenges) = 2
  /\ challenges[1].id = called.args[1]
  /\ called.args[4].baseTime = 300
  /\ challenges[1].metadata.baseTime = 300
  /\ challenges[1].category = "logic"
  /\ challenges[2].metadata.baseTime = 200

(* C17: All-wrong game.  In a game where every challenge presented gets    *)
(* exactly one submission and every submission is wrong, each answer costs *)
(* one life, the game is over after exactly maxLives = 5 challenges with   *)
(* lives = 0, exactly one gameOver has been emitted, and the statistics    *)
(* have been saved exactly once, with correctAnswers = 0 and               *)
(* totalChallenges = 5 as the gameOver event reports them.                 *)
AllWrongGame ==
  /\ state.correctAnswers = 0
  /\ state.lives = state.maxLives - state.wrongAnswers
  /\ state.totalChallenges <= 5
  /\ state.isPlaying => gameOverCount = 0 /\ statsCalls = 0
  /\ (games = 1 /\ ~state.isPlaying)
       => /\ state.lives = 0
          /\ state.totalChallenges = 5
          /\ state.wrongAnswers = 5
          /\ gameOverCount = 1
          /\ statsCalls = 1
  /\ \A i \in DOMAIN emitted :
       emitted[i].name = "gameOver"
         => /\ emitted[i].correctAnswers = 0
            /\ emitted[i].totalChallenges = 5
            /\ emitted[i].score = 0
            /\ emitted[i].accuracy = 0

(* The delayed endGame of the fifth wrong answer has ended the game.       *)
FifthWrongAnswerEndedGame ==
  /\ called.name = "endGame"
  /\ Has(emitted, "gameOver")
  /\ ~state.isPlaying
  /\ state.wrongAnswers = 5
  /\ state.totalChallenges = 5
  /\ statsCalls = 1

(* C18: Life-gain rule.  A correct answer adds one life and emits          *)
(* lifeGained exactly when it takes winStreak from 2 to 3 and lives is     *)
(* below maxLives beforehand; every other correct answer leaves lives      *)
(* unchanged and emits no lifeGained; lifeGained comes before the          *)
(* answerCorrect of the same answer and is emitted by nothing else; three  *)
(* correct answers in a row at full health leave winStreak = 0, lives = 5, *)
(* score = 3 and difficulty raised by 3.                                   *)
Position(events, name) == CHOOSE i \in DOMAIN events : events[i].name = name

LifeGainRule ==
  /\ [][Has(emitted', "answerCorrect")
          => IF state.winStreak = 2 /\ state.lives < state.maxLives
             THEN /\ state'.lives = state.lives + 1
                  /\ Has(emitted', "lifeGained")
                  /\ Position(emitted', "lifeGained")
                       < Position(emitted', "answerCorrect")
                  /\ emitted'[Position(emitted', "lifeGained")].lives = state'.lives
             ELSE /\ state'.lives = state.lives
                  /\ ~Has(emitted', "lifeGained")]_vars
  /\ [][(games' = games /\ ~Has(emitted', "answerCorrect"))
          => /\ state'.lives <= state.lives
             /\ ~Has(emitted', "lifeGained")]_vars
  /\ []((state.correctAnswers = 3 /\ state.wrongAnswers = 0
           /\ Has(emitted, "answerCorrect"))
          => /\ state.winStreak = 0
             /\ state.lives = 5
             /\ state.score = 3
             /\ state.difficulty = 4)

(* A life has been won back: one wrong answer, then the third correct      *)
(* answer in a row.                                                        *)
LifeWonBack ==
  /\ called.name = "submitAnswer"
  /\ Has(emitted, "lifeGained")
  /\ Has(emitted, "answerCorrect")
  /\ state.wrongAnswers = 1
  /\ state.correctAnswers = 3
  /\ state.winStreak = 0
  /\ state.lives = 5

(* C19: No challenge is acquired while paused.  A pacing-delay callback    *)
(* (nextChallenge) that fires while the game is paused creates no          *)
(* instance, emits no challengeReady, does not increment totalChallenges,  *)
(* and neither starts a countdown nor schedules the start of one.          *)
NoAcquisitionWhilePaused ==
  [][(called'.name = "nextChallenge" /\ state.isPaused)
       => /\ loads' = loads
          /\ currentChallenge' = currentChallenge
          /\ state'.totalChallenges = state.totalChallenges
          /\ ~Has(emitted', "challengeReady")
          /\ timeouts'["startTimer"] = timeouts["startTimer"]
          /\ state'.timerInterval = state.timerInterval]_vars

(* C20: Stale continuations are inert across games.  With startGame called *)
(* only after the previous game is over: a delayed endGame ends a game     *)
(* only if that game's lives have reached 0; a game never holds more       *)
(* challenges than its first one plus one per graded outcome; and a        *)
(* grace-delay continuation that fires while more continuations are        *)
(* pending than the current game has loaded challenges (so the oldest, the *)
(* one that fires, is of an earlier game) does not start the countdown.    *)
StaleContinuationsInert ==
  /\ [][(called'.name = "endGame" /\ state.isPlaying /\ ~livesReachedZero)
          => state'.isPlaying]_vars
  /\ [](state.totalChallenges
          <= 1 + state.correctAnswers + state.wrongAnswers)
  /\ [][(/\ called'.name = "startTimer"
         /\ games' = games
         /\ timeouts["startTimer"] > state.totalChallenges)
          => state'.timerInterval = state.timerInterval]_vars

(* C21: Scaler saturation.  For the category and the difficulty of every   *)
(* instance the factories create, each numeric knob of                     *)
(* getDifficultyParams moves in one direction only as the difficulty       *)
(* rises (time limits, speeds and tolerances down, everything else up),    *)
(* no knob changes any more once the difficulty has passed the level at    *)
(* which the clamps are reached, and timeLimit stays above 5.              *)
SaturationLevel == 21

Decreasing == {"timeLimit", "flashSpeed", "shuffleSpeed", "rotationTolerance"}

NumericKnobs(params) == DOMAIN params \ {"operations"}

ParamsOf(challenge) == getDifficultyParams(challenge.category, challenge.difficulty)

ScalerSaturation ==
  /\ [](currentChallenge # NoChallenge => ParamsOf(currentChallenge).timeLimit > 5)
  /\ [][(/\ currentChallenge # NoChallenge
         /\ currentChallenge'.category = currentChallenge.category
         /\ currentChallenge'.difficulty > currentChallenge.difficulty)
          => LET before == ParamsOf(currentChallenge)
                 after == ParamsOf(currentChallenge')
             IN \A knob \in NumericKnobs(before) :
                  /\ IF knob \in Decreasing
                     THEN after[knob] <= before[knob]
                     ELSE after[knob] >= before[knob]
                  /\ currentChallenge.difficulty >= SaturationLevel
                       => after[knob] = before[knob]]_vars

(* The next tick takes timeRemaining to 0 or below: the value is one tick  *)
(* above 0 and the subtraction leaves no residue, or it is the residue.    *)
CountdownExpires ==
  \/ state.timeRemaining = 0
  \/ state.timeRemaining = 1 /\ ~Drifts(state.baseTime)

(* C22: Timeout is a wrong answer preceded by a timeout event.  When a     *)
(* tick takes timeRemaining to 0 or below while playing with lives > 0,    *)
(* the countdown is stopped, exactly the events timeout and answerWrong    *)
(* are emitted, in this order and both with the instance's correctAnswer,  *)
(* and wrongAnswers, winStreak, lives, score, difficulty, the answerWrong   *)
(* event and the callback scheduled are those of an explicit wrong         *)
(* submission made in the same state.                                      *)
TimeoutIsWrongAnswer ==
  [][(/\ called'.name = "timerCallback"
      /\ state.isPlaying
      /\ state.lives > 0
      /\ CountdownExpires)
       => /\ state'.timerInterval = NULL
          /\ state'.timeRemaining = 0
          /\ Len(emitted') = 2
          /\ emitted'[1] = [name |-> "timeout",
                            correctAnswer |-> correctAnswerOf(currentChallenge)]
          /\ emitted'[2] = [name |-> "answerWrong",
                            lives |-> state.lives - 1,
                            correctAnswer |-> correctAnswerOf(currentChallenge)]
          /\ state'.wrongAnswers = state.wrongAnswers + 1
          /\ state'.winStreak = 0
          /\ state'.lives = state.lives - 1
          /\ state'.score = state.score
          /\ state'.difficulty = state.difficulty
          /\ currentChallenge' = currentChallenge
          /\ \A answer \in Answers :
               ~check(currentChallenge, answer)
                 => LET explicit == submitAnswer(Called, answer)
                    IN /\ state'.wrongAnswers = explicit.state.wrongAnswers
                       /\ state'.winStreak = explicit.state.winStreak
                       /\ state'.lives = explicit.state.lives
                       /\ state'.score = explicit.state.score
                       /\ state'.difficulty = explicit.state.difficulty
                       /\ state'.timerInterval = explicit.state.timerInterval
                       /\ timeouts' = explicit.timeouts
                       /\ emitted'[2] = explicit.emitted[1]]_vars

(* The last life has been lost to a timeout and the end of the game is    *)
(* scheduled.                                                              *)
LastLifeLostToTimeout ==
  /\ called.name = "timerCallback"
  /\ Len(emitted) = 2
  /\ emitted[1].name = "timeout"
  /\ emitted[2].name = "answerWrong"
  /\ state.lives = 0
  /\ state.isPlaying
  /\ state.timerInterval = NULL
  /\ timeouts["endGame"] = 1

(* C23: Guarded accuracy.  The accuracy of every gameOver event is         *)
(* 100 * correctAnswers / totalChallenges rounded to the nearest integer   *)
(* (halves up) when totalChallenges > 0, and it is a number, not the       *)
(* not-a-number result of 0 / 0, when the game ends with                   *)
(* totalChallenges = 0.                                                    *)
GuardedAccuracy ==
  \A i \in DOMAIN emitted :
    emitted[i].name = "gameOver"
      => /\ emitted[i].accuracy # NaN
         /\ emitted[i].totalChallenges > 0
              => /\ 2 * emitted[i].accuracy * emitted[i].totalChallenges
                      <= 200 * emitted[i].correctAnswers + emitted[i].totalChallenges
                 /\ 200 * emitted[i].correctAnswers + emitted[i].totalChallenges
                      < 2 * (emitted[i].accuracy + 1) * emitted[i].totalChallenges

(* C24: Event delivery order.  emit(event, data) invokes, before it        *)
(* returns, the handlers subscribed to that event and no others, once per  *)
(* subscription and in subscription order, each with the data emitted, and *)
(* leaves the subscriptions as they were; with no subscriber it invokes    *)
(* nothing.  on adds the handler after the existing subscriptions of the   *)
(* event; off removes the handler from the event, so that later emits do   *)
(* not invoke it, and keeps the other handlers in their order.             *)
Subscriptions(handlers, event, handler) ==
  Cardinality({i \in DOMAIN handlers[event] : handlers[event][i] = handler})

Invocations(handler) ==
  Cardinality({i \in DOMAIN delivered : delivered[i].handler = handler})

EventDeliveryOrder ==
  /\ [](called.name = "emit"
          => LET event == called.args[1]
                 data == called.args[2]
             IN /\ Len(delivered) = Len(eventHandlers[event])
                /\ \A i \in DOMAIN delivered :
                     /\ delivered[i].handler = eventHandlers[event][i]
                     /\ delivered[i].event = event
                     /\ delivered[i].data = data
                /\ \A handler \in Handlers :
                     Invocations(handler) = Subscriptions(eventHandlers, event, handler)
                /\ eventHandlers[event] = <<>> => delivered = <<>>)
  /\ [][called'.name = "emit" => eventHandlers' = eventHandlers]_vars
  /\ [][called'.name = "on"
          => LET event == called'.args[1]
                 handler == called'.args[2]
             IN /\ Len(eventHandlers'[event]) = Len(eventHandlers[event]) + 1
                /\ eventHandlers'[event][Len(eventHandlers'[event])] = handler
                /\ \A i \in DOMAIN eventHandlers[event] :
                     eventHandlers'[event][i] = eventHandlers[event][i]
                /\ \A other \in EventNames \ {event} :
                     eventHandlers'[other] = eventHandlers[other]
                /\ delivered' = <<>>]_vars
  /\ [][called'.name = "off"
          => LET event == called'.args[1]
                 handler == called'.args[2]
             IN /\ Subscriptions(eventHandlers', event, handler) = 0
                /\ \A kept \in Handlers \ {handler} :
                     Subscriptions(eventHandlers', event, kept)
                       = Subscriptions(eventHandlers, event, kept)
                /\ \A other \in EventNames \ {event} :
                     eventHandlers'[other] = eventHandlers[other]
                /\ delivered' = <<>>]_vars

(* A handler subscribed twice to an event, with another handler between    *)
(* its subscriptions, has been invoked twice by one emit, around the other *)
(* handler.                                                                *)
HandlerInvokedPerSubscription ==
  /\ called.name = "emit"
  /\ Len(delivered) = 3
  /\ delivered[1].handler = "updateTimer"
  /\ delivered[2].handler = "showGameOver"
  /\ delivered[3].handler = "updateTimer"
  /\ delivered[1].event = "timerTick"
  /\ eventHandlers["gameOver"] = <<>>

(* C25: Countdown bounds.  In every reachable state                        *)
(* 0 <= timeRemaining <= baseTime and baseTime > 0; an acquisition that    *)
(* emits challengeReady sets timeRemaining to the base time it has just    *)
(* computed; a tick that would take timeRemaining to 0 or below leaves it  *)
(* at exactly 0.                                                           *)
CountdownBounds ==
  /\ [](/\ 0 <= state.timeRemaining
        /\ state.timeRemaining <= state.baseTime
        /\ state.baseTime > 0)
  /\ [][Has(emitted', "challengeReady")
          => /\ state'.timeRemaining = state'.baseTime
             /\ \E i \in DOMAIN challenges :
                  /\ currentChallenge' =
                       factory(challenges[i], state'.difficulty).value
                  /\ state'.baseTime =
                       getBaseTimer(challenges[i].metadata.baseTime,
                                    state'.difficulty)]_vars
  /\ [][(/\ called'.name = "timerCallback"
         /\ state.isPlaying
         /\ state.lives > 0
         /\ CountdownExpires)
          => /\ state'.timeRemaining = 0
             /\ state'.timerInterval = NULL]_vars

CountdownClampedAtZero ==
  /\ called.name = "timerCallback"
  /\ Has(emitted, "timeout")
  /\ state.timeRemaining = 0
  /\ state.baseTime > 0

(* C26: Cleanup ordering.  The instance that is currentChallenge has its  *)
(* cleanup() invoked before the factory of the next instance is called;    *)
(* the instance active when the game ends has cleanup() invoked before     *)
(* gameOver is emitted; and no countdown is left running when the new      *)
(* instance is created.                                                    *)
CleanedUpBefore(log, challenge, i) ==
  \E j \in 1..(i - 1) :
    /\ log[j].name = "cleanup"
    /\ log[j].challenge = challenge

CleanupBeforeNextInstance ==
  [][\A i \in DOMAIN effects' :
       (effects'[i].name = "factory" /\ currentChallenge # NoChallenge)
         => CleanedUpBefore(effects', currentChallenge, i)]_vars

CleanupBeforeGameOver ==
  [][\A i \in DOMAIN effects' :
       (/\ effects'[i].name = "emit"
        /\ effects'[i].event = "gameOver"
        /\ currentChallenge' # NoChallenge)
         => CleanedUpBefore(effects', currentChallenge', i)]_vars

CountdownStoppedBeforeNextInstance ==
  [][Has(effects', "factory")
       => /\ leaked' = 0
          /\ state.timerInterval # NULL
               => \E i, j \in DOMAIN effects' :
                    /\ i < j
                    /\ effects'[i].name = "clearInterval"
                    /\ effects'[j].name = "factory"]_vars

CleanupOrdering ==
  /\ CleanupBeforeNextInstance
  /\ CleanupBeforeGameOver
  /\ CountdownStoppedBeforeNextInstance

(* C27: Game termination under inactivity.  After startGame on a registry  *)
(* with an eligible challenge, a player who never submits and never pauses *)
(* sees, under fair firing of the timers, every challenge time out, and    *)
(* the game reach Ended (gameOver emitted, isPlaying = FALSE) after        *)
(* exactly 5 timeouts.                                                     *)
Ended == ~state.isPlaying /\ gameOverCount = 1

InactivityTermination ==
  /\ \A n \in 1..5 :
       (games = 1 /\ loads = n) ~> (state.wrongAnswers = n /\ answers = n)
  /\ (games = 1) ~> (Ended /\ state.wrongAnswers = 5 /\ state.lives = 0)
  /\ [][state'.wrongAnswers # state.wrongAnswers
          => /\ state'.wrongAnswers = state.wrongAnswers + 1
             /\ Has(emitted', "timeout")]_vars
  /\ [](gameOverCount > 0 => state.wrongAnswers = 5 /\ loads = 5)
  /\ [][Has(emitted', "gameOver") => ~state'.isPlaying]_vars

EndedAfterFiveTimeouts ==
  /\ called.name = "endGame"
  /\ Has(emitted, "gameOver")
  /\ Ended
  /\ state.wrongAnswers = 5
  /\ state.correctAnswers = 0
  /\ state.totalChallenges = 5

(* C28: Single countdown.  At most one countdown interval is live at any   *)
(* time, and whenever the engine creates an interval every interval        *)
(* created before has been cleared, for every sequence of startGame        *)
(* (also while a countdown runs), nextChallenge, pauseGame, resumeGame,    *)
(* endGame and destroy.                                                    *)
LiveIntervals == leaked + (IF state.timerInterval # NULL THEN 1 ELSE 0)

SingleCountdown ==
  /\ [](LiveIntervals <= 1)
  /\ [][(called'.name \in {"startTimer", "resumeGame"}
         /\ state'.timerInterval # NULL)
          => leaked' = 0]_vars

(* C29: Answers are graded against their own challenge.  An answer event   *)
(* produced by the UI of instance A (a delayed dispatch, a second click)   *)
(* is graded only against A, never against a later instance B, and A is    *)
(* graded at most once.                                                    *)
GradedDispatch ==
  called'.name = "challengeAnswer" /\ answers' # answers

GradedAgainstOwnInstance ==
  [][GradedDispatch => Head(dispatched).origin = loads]_vars

GradedAtMostOnce ==
  [][GradedDispatch => graded = {}]_vars

AnswersGradedAgainstOwnChallenge ==
  /\ GradedAgainstOwnInstance
  /\ GradedAtMostOnce

(* C30: Score/difficulty coupling.  In every reachable state               *)
(* score = correctAnswers, difficulty = 1 + correctAnswers and the sum of  *)
(* categoryStats[c].correct over the four categories equals                *)
(* correctAnswers; the counters advance, by one, only in the               *)
(* correct-answer transition.                                              *)
ScoreDifficultyCoupling ==
  /\ [](/\ state.score = state.correctAnswers
        /\ state.difficulty = 1 + state.correctAnswers
        /\ Sum([c \in Categories |-> state.categoryStats[c].correct])
             = state.correctAnswers)
  /\ [][(\/ state'.score > state.score
         \/ state'.difficulty > state.difficulty
         \/ state'.correctAnswers > state.correctAnswers)
          => /\ Has(emitted', "answerCorrect")
             /\ state'.score = state.score + 1
             /\ state'.difficulty = state.difficulty + 1
             /\ state'.correctAnswers = state.correctAnswers + 1]_vars

CorrectInTwoCategories ==
  /\ Has(emitted, "answerCorrect")
  /\ state.score = 2
  /\ state.difficulty = 3
  /\ state.categoryStats["math"].correct = 1
  /\ state.categoryStats["logic"].correct = 1

====
